---- MODULE Spec2Model ----
(***************************************************************************)
(* The realtime relay (WebSocketHandler) of flassh: client sockets, their  *)
(* binding to SSH sessions, lazy shell-channel creation, the fan-out of    *)
(* channel output to the bound socket and the liveness sweep.              *)
(*                                                                         *)
(* WebSocketHandler is translated from src/unnamed/part_000, lines 439 to  *)
(* 685.  The session registry it calls (sshManager, ssh-manager.ts) is not *)
(* part of the sources at hand; the operators that stand for it are        *)
(* written from section 4.1 of the specification and are marked as such.   *)
(*                                                                         *)
(* The credential vault (CredentialStore) is translated from lines 36 to   *)
(* 424 of the same file: its two collections, their files, the encryption  *)
(* of the secret fields and the reconciliation at startup.                 *)
(*                                                                         *)
(* The client's connections store (useConnectionsStore) is translated from *)
(* the listing in src/README.md, lines 86 to 260.                          *)
(*                                                                         *)
(* Every action is one run of a listener or handler from the event loop    *)
(* up to its next suspension point: JavaScript runs a callback and the     *)
(* continuations it resolves to completion before the next I/O event.      *)
(***************************************************************************)
EXTENDS Integers, Sequences, FiniteSets, TLC

\* ------------------------------------------------------------- bounds
\* Largest number of handlers suspended in `await createShell` at a time.
MaxPending == 2

\* Random values (initialization vectors, generated keys) drawn in a run.
MaxFresh == 4

\* Last reading of the clock.
MaxClock == 1

\* File operations that fail in a run.
MaxFailures == 1

\* Modifications made to the stored credential file from outside in a run.
MaxTampers == 1

\* List requests the client store sends in a run.
MaxRequests == 3

\* ------------------------------------------------------------- values
\* The client sockets that connect during a run.  The relay keeps at most one
\* socket per session id, so two sockets show every takeover of a binding.
Sockets == {"A", "B"}
\* What Map.get returns for an unbound key.
NoWs == "none"

\* Session ids held by the registry, and one id the registry does not hold.
Sessions == {"s1", "s2"}
AbsentId == "s0"
SessionIds == Sessions \cup {AbsentId}

\* Dimensions the manager uses when createShell gets no cols/rows.
DefaultDims == [cols |-> 80, rows |-> 24]

\* session.shell of a session without a channel.
NoShell == [open |-> FALSE, dataListeners |-> 0, closeListeners |-> 0]

\* JavaScript truthiness of a field (`!v`): undefined, "" and 0 are all falsy;
\* a missing string field is modelled as "", a missing number as 0.
FalsyStr(v) == v = ""
FalsyNum(v) == v = 0

\* Payloads a client can put on the wire.  json is what JSON.parse does with
\* the text: "throws", yields "null", or yields an object ("obj").
Payload(j, t, s, d, c, r) ==
    [json |-> j, type |-> t, sessionId |-> s, data |-> d, cols |-> c, rows |-> r]

InputFrames ==
    {Payload("obj", "input", s, "a", 0, 0) : s \in SessionIds \cup {""}}
        \cup {Payload("obj", "input", "s1", "", 0, 0)}
ResizeFrames ==
    {Payload("obj", "resize", s, "", 100, 30) : s \in SessionIds \cup {""}}
        \cup {Payload("obj", "resize", "s1", "", 0, 30),
              Payload("obj", "resize", "s1", "", 100, 0)}
PingFrames ==
    {Payload("obj", "ping", "s1", "", 0, 0), Payload("obj", "ping", "", "", 0, 0)}
OtherFrames ==
    {Payload("obj", "bogus", "s1", "", 0, 0),
     Payload("throws", "", "", "", 0, 0),
     Payload("null", "", "", "", 0, 0)}
Payloads == InputFrames \cup ResizeFrames \cup PingFrames \cup OtherFrames

NoMsg == Payload("none", "", "", "", 0, 0)

\* Output chunks of a channel, as bytes: "A", and the lead byte of a
\* two-byte UTF-8 sequence cut off by the chunk boundary.
Chunks == {<<65>>, <<195>>}

VARIABLES
    readyState,        \* ws.readyState of each socket: NEW before it connects
    wsSessionId,       \* ws.sessionId
    isAlive,           \* ws.isAlive
    sessionToWs,       \* WebSocketHandler.sessionToWs
    shellOutputSetup,  \* WebSocketHandler.shellOutputSetup
    shell,             \* session.shell of each registered session
    pending,           \* handlers suspended in `await createShell`, per session
    out,               \* frames ws.send was called with during the last step
    written,           \* bytes written to channels during the last step
    ptyOps,            \* channels opened or resized during the last step
    last,              \* the event the last step handled
    closedBefore,      \* sessions of which a channel has closed (history)
    pinged,            \* sockets the last sweep called ws.ping() on
    missed,            \* sweeps a socket went through since its last pong (history)
    everPonged,        \* sockets of which a pong was received (history)
    credentials,       \* CredentialStore.credentials
    connections,       \* CredentialStore.connections
    encryptionKey,     \* CredentialStore.encryptionKey
    keyFile,           \* the key file on disk
    credFile,          \* the file at storePath
    connFile,          \* the file at connectionsPath
    fresh,             \* random values drawn from crypto.randomBytes so far
    now,               \* the clock new Date() reads
    failures,          \* file operations that have failed so far
    tampers,           \* modifications made to the stored file from outside
    vlast,             \* the vault call the last step made, and its outcome
    savedConnections,  \* useConnectionsStore: savedConnections
    isLoading,         \* useConnectionsStore: isLoading
    isLoaded,          \* useConnectionsStore: isLoaded
    loads,             \* calls of loadConnections suspended in an await
    requests,          \* list requests sent so far
    clast              \* what the last step of the client store did

relayVars ==
    <<readyState, wsSessionId, isAlive, sessionToWs, shellOutputSetup,
      shell, pending, out, written, ptyOps, last, closedBefore>>

sweepVars == <<pinged, missed, everPonged>>

vaultVars ==
    <<credentials, connections, encryptionKey, keyFile, credFile, connFile,
      fresh, now, failures, tampers, vlast>>

clientVars == <<savedConnections, isLoading, isLoaded, loads, requests, clast>>

vars == <<relayVars, sweepVars, vaultVars, clientVars>>

Event(op, w, s, m) == [op |-> op, ws |-> w, sid |-> s, msg |-> m]

\* ------------------------------------------------------------ sending
\* ServerMessage frames, tagged with the socket they are sent on.
Frame(w, t, s, d, e) ==
    [to |-> w, type |-> t, sessionId |-> s, data |-> d, error |-> e]

sendMessage(o, w, t, s, d, e) ==
    IF readyState[w] = "OPEN" THEN Append(o, Frame(w, t, s, d, e)) ELSE o

sendError(o, w, e, s) == sendMessage(o, w, "error", s, "", e)

\* data.toString('utf-8'): a complete ASCII byte decodes to its character, an
\* incomplete multi-byte sequence to U+FFFD.
RECURSIVE toUtf8String(_)
toUtf8String(bytes) ==
    IF bytes = <<>> THEN ""
    ELSE (IF Head(bytes) < 128 THEN "A" ELSE "U+FFFD") \o toUtf8String(Tail(bytes))

\* ------------------------------------------------- session registry
\* sshManager.getSession(id) finds a session.
hasSession(s) == s \in Sessions

\* sshManager.sendInput: true when the session has a channel and the channel
\* takes the write (accepted is the underlying connection's answer).
sendInput(sh, s, accepted) == sh[s].open /\ accepted

\* The channel sshManager.createShell stores in session.shell.
newShell == [open |-> TRUE, dataListeners |-> 0, closeListeners |-> 0]

\* A terminal operation on the channel of s: "open" with the dimensions the
\* channel is created with, "resize" with the dimensions it is changed to.
PtyOp(op, s, c, r) == [op |-> op, sid |-> s, cols |-> c, rows |-> r]

\* A write sendInput made to the channel of s; wired tells whether the channel
\* carried a data listener when the bytes were written.
Write(sh, s, d) == [sid |-> s, data |-> d, wired |-> sh[s].dataListeners >= 1]

\* Dimensions a suspended handler passed to createShell.
requestedDims(wt) ==
    IF wt.type = "resize" THEN [cols |-> wt.cols, rows |-> wt.rows] ELSE DefaultDims

\* sshManager.createShell while no creation is in flight and the session has
\* no channel: a channel is requested with these dimensions.  A call made
\* while a creation is in flight waits for that creation instead.
createShellOpens(wts, s) ==
    LET d == requestedDims(Head(wts)) IN PtyOp("open", s, d.cols, d.rows)

\* sshManager.resizeTerminal: forwarded when the session has a channel.
resizeTerminal(sh, s, c, r) ==
    IF sh[s].open THEN <<PtyOp("resize", s, c, r)>> ELSE <<>>

\* ------------------------------------------------------ relay helpers
\* handleInput checking the session id alone.
inputInvalid_sidOnly(m) == FalsyStr(m.sessionId)

\* The checks handleInput and handleResize make on the fields of a frame.
inputInvalid(m) == FalsyStr(m.sessionId) \/ FalsyStr(m.data)
resizeInvalid(m) == FalsyStr(m.sessionId) \/ FalsyNum(m.cols) \/ FalsyNum(m.rows)

\* bindSocket with the first socket kept: a later socket does not take over.
bindSocket_keepFirst(map, s, w) == IF map[s] = NoWs THEN [map EXCEPT ![s] = w] ELSE map

\* ws.sessionId = sessionId; this.sessionToWs.set(sessionId, ws)
bindSocket(map, s, w) == [map EXCEPT ![s] = w]

\* setupShellOutput without the shellOutputSetup check.
setupShellOutput_noGuard(st, s) ==
    IF ~st.shell[s].open THEN st
    ELSE [st EXCEPT !.setup = @ \cup {s},
                    !.shell[s].dataListeners = @ + 1,
                    !.shell[s].closeListeners = @ + 1]

\* setupShellOutput on st = [setup, shell]: attaches one data and one close
\* listener to the session's channel unless the session is marked as set up.
setupShellOutput(st, s) ==
    IF s \in st.setup THEN st
    ELSE IF ~st.shell[s].open THEN st
    ELSE [st EXCEPT !.setup = @ \cup {s},
                    !.shell[s].dataListeners = @ + 1,
                    !.shell[s].closeListeners = @ + 1]

\* sendMessage to each socket of a set, in some order.
RECURSIVE sendToEach(_, _, _, _, _)
sendToEach(o, S, t, s, d) ==
    IF S = {} THEN o
    ELSE LET w == CHOOSE x \in S : TRUE
         IN sendToEach(sendMessage(o, w, t, s, d, ""), S \ {w}, t, s, d)

\* The 'data' listener finding its sockets by ws.sessionId instead of the map.
shellDataListener_bySocketField(o, s, chunk) ==
    sendToEach(o, {w \in Sockets : wsSessionId[w] = s}, "output", s, toUtf8String(chunk))

\* One run of the 'data' listener of session s.
shellDataListener(o, s, chunk) ==
    LET ws == sessionToWs[s] IN
    IF ws # NoWs /\ readyState[ws] = "OPEN"
    THEN sendMessage(o, ws, "output", s, toUtf8String(chunk), "")
    ELSE o

\* The 'close' listener without shellOutputSetup.delete.
shellCloseListener_keepMarker(st, s) ==
    LET ws == st.map[s] IN
    [out |-> IF ws # NoWs /\ readyState[ws] = "OPEN"
             THEN sendMessage(st.out, ws, "disconnect", s, "", "")
             ELSE st.out,
     setup |-> st.setup,
     map |-> [st.map EXCEPT ![s] = NoWs]]

\* The 'close' listener without sessionToWs.delete.
shellCloseListener_keepBinding(st, s) ==
    LET ws == st.map[s] IN
    [out |-> IF ws # NoWs /\ readyState[ws] = "OPEN"
             THEN sendMessage(st.out, ws, "disconnect", s, "", "")
             ELSE st.out,
     setup |-> st.setup \ {s},
     map |-> st.map]

\* One run of the 'close' listener of session s on st = [out, setup, map].
shellCloseListener(st, s) ==
    LET ws == st.map[s] IN
    [out |-> IF ws # NoWs /\ readyState[ws] = "OPEN"
             THEN sendMessage(st.out, ws, "disconnect", s, "", "")
             ELSE st.out,
     setup |-> st.setup \ {s},
     map |-> [st.map EXCEPT ![s] = NoWs]]

\* n runs of a listener f, as an emitter with n listeners calls them in turn.
RECURSIVE dataListenerRuns(_, _, _, _)
dataListenerRuns(n, o, s, chunk) ==
    IF n = 0 THEN o ELSE dataListenerRuns(n - 1, shellDataListener(o, s, chunk), s, chunk)

RECURSIVE closeListenerRuns(_, _, _)
closeListenerRuns(n, st, s) ==
    IF n = 0 THEN st ELSE closeListenerRuns(n - 1, shellCloseListener(st, s), s)

\* handleInput resuming with the input sent before the output is wired.
inputAfterCreate_writeFirst(st, wt, s, accepted) ==
    LET wired == setupShellOutput([setup |-> st.setup, shell |-> st.shell], s) IN
    IF sendInput(st.shell, s, accepted)
    THEN [setup |-> wired.setup, shell |-> wired.shell, out |-> st.out,
          written |-> Append(st.written, Write(st.shell, s, wt.data))]
    ELSE [setup |-> wired.setup, shell |-> wired.shell,
          out |-> sendError(st.out, wt.ws, "Failed to send input", s),
          written |-> st.written]

\* handleInput after `await createShell` resolved, on
\* st = [setup, shell, out, written]: wire the output, then send the input.
inputAfterCreate(st, wt, s, accepted) ==
    LET wired == setupShellOutput([setup |-> st.setup, shell |-> st.shell], s) IN
    IF sendInput(wired.shell, s, accepted)
    THEN [setup |-> wired.setup, shell |-> wired.shell, out |-> st.out,
          written |-> Append(st.written, Write(wired.shell, s, wt.data))]
    ELSE [setup |-> wired.setup, shell |-> wired.shell,
          out |-> sendError(st.out, wt.ws, "Failed to send input", s),
          written |-> st.written]

\* handleResize after `await createShell` resolved.
resizeAfterCreate(st, wt, s) ==
    LET wired == setupShellOutput([setup |-> st.setup, shell |-> st.shell], s) IN
    [st EXCEPT !.setup = wired.setup, !.shell = wired.shell]

\* The catch block of handleInput swallowing the failure as handleResize does.
inputCreateFailed_silent(o, wt, s) == o

\* The catch blocks after `await createShell` rejected.
inputCreateFailed(o, wt, s) == sendError(o, wt.ws, "Failed to create shell", s)
resizeCreateFailed(o, wt, s) == o

\* The handlers suspended on one creation resuming last come, first served.
RECURSIVE resumeAll_lastFirst(_, _, _, _)
resumeAll_lastFirst(st, wts, s, oks) ==
    IF wts = <<>> THEN st
    ELSE LET n == Len(wts) IN
         resumeAll_lastFirst(
           IF wts[n].type = "input"
           THEN inputAfterCreate(st, wts[n], s, oks[n])
           ELSE resizeAfterCreate(st, wts[n], s),
           SubSeq(wts, 1, n - 1), s, SubSeq(oks, 1, n - 1))

\* The handlers suspended on one creation resume in the order they awaited;
\* oks[i] is the connection's answer to the write of the i-th of them.
RECURSIVE resumeAll(_, _, _, _)
resumeAll(st, wts, s, oks) ==
    IF wts = <<>> THEN st
    ELSE resumeAll(
           IF Head(wts).type = "input"
           THEN inputAfterCreate(st, Head(wts), s, Head(oks))
           ELSE resizeAfterCreate(st, Head(wts), s),
           Tail(wts), s, Tail(oks))

RECURSIVE rejectAll(_, _, _)
rejectAll(o, wts, s) ==
    IF wts = <<>> THEN o
    ELSE rejectAll(
           IF Head(wts).type = "input"
           THEN inputCreateFailed(o, Head(wts), s)
           ELSE resizeCreateFailed(o, Head(wts), s),
           Tail(wts), s)

\* Number of suspended handlers, over all sessions.
RECURSIVE inFlight(_, _)
inFlight(p, S) ==
    IF S = {} THEN 0
    ELSE LET s == CHOOSE x \in S : TRUE IN Len(p[s]) + inFlight(p, S \ {s})

Waiter(w, m) ==
    [ws |-> w, type |-> m.type, data |-> m.data, cols |-> m.cols, rows |-> m.rows]

\* ------------------------------------------------------------- vault
\* CredentialStore, src/unnamed/part_000 lines 36 to 424.  A Map is a function
\* on the set of its keys; an optional field is None or Some(value); a string
\* is the sequence of its UTF-16 code units; a file is None or Some(content).
Ids == {"c1", "c2"}

None == <<>>
Some(x) == <<x>>

\* The test `if (config.password)` taken as a test for undefined alone.
Truthy_defined(f) == f # None

\* JavaScript truthiness of an optional string: undefined and "" are falsy.
Truthy(f) == f # None /\ f[1] # <<>>

EmptyMap == [x \in {} |-> None]
MapSet(m, k, v) == [x \in DOMAIN m \cup {k} |-> IF x = k THEN v ELSE m[x]]
MapDelete(m, k) == [x \in DOMAIN m \ {k} |-> m[x]]

\* The operator-provided key (CREDENTIAL_KEY), and no such variable set.
EnvKey == 0
NoEnvKey == -1

\* credential.iv as save writes it: the empty string.
EmptyIv == 0

\* Buffer.from(text, 'utf8'): the UTF-8 bytes of a string.  A surrogate that
\* is not part of a pair is encoded as U+FFFD.
RECURSIVE utf8Bytes(_)
utf8Bytes(s) ==
    IF s = <<>> THEN <<>>
    ELSE LET u == Head(s) IN
         IF u < 128 THEN <<u>> \o utf8Bytes(Tail(s))
         ELSE IF u < 2048
         THEN <<192 + (u \div 64), 128 + (u % 64)>> \o utf8Bytes(Tail(s))
         ELSE IF u >= 55296 /\ u <= 56319 /\ Len(s) > 1
                 /\ s[2] >= 56320 /\ s[2] <= 57343
         THEN LET c == 65536 + (u - 55296) * 1024 + (s[2] - 56320) IN
              <<240 + (c \div 262144), 128 + ((c \div 4096) % 64),
                128 + ((c \div 64) % 64), 128 + (c % 64)>>
              \o utf8Bytes(Tail(Tail(s)))
         ELSE IF u >= 55296 /\ u <= 57343
         THEN <<239, 191, 189>> \o utf8Bytes(Tail(s))
         ELSE <<224 + (u \div 4096), 128 + ((u \div 64) % 64), 128 + (u % 64)>>
              \o utf8Bytes(Tail(s))

\* A continuation byte of UTF-8.
Cont(b) == b >= 128 /\ b < 192

\* buffer.toString('utf8') of the bytes utf8Bytes produces, and U+FFFD for a
\* byte that starts no complete sequence.
RECURSIVE utf8Text(_)
utf8Text(b) ==
    IF b = <<>> THEN <<>>
    ELSE LET h == Head(b) IN
         IF h < 128 THEN <<h>> \o utf8Text(Tail(b))
         ELSE IF h >= 194 /\ h < 224 /\ Len(b) >= 2 /\ Cont(b[2])
         THEN <<(h - 192) * 64 + (b[2] - 128)>> \o utf8Text(SubSeq(b, 3, Len(b)))
         ELSE IF h >= 224 /\ h < 240 /\ Len(b) >= 3 /\ Cont(b[2]) /\ Cont(b[3])
         THEN <<(h - 224) * 4096 + (b[2] - 128) * 64 + (b[3] - 128)>>
              \o utf8Text(SubSeq(b, 4, Len(b)))
         ELSE IF h >= 240 /\ h < 245 /\ Len(b) >= 4
                 /\ Cont(b[2]) /\ Cont(b[3]) /\ Cont(b[4])
         THEN LET c == (h - 240) * 262144 + (b[2] - 128) * 4096
                       + (b[3] - 128) * 64 + (b[4] - 128) - 65536 IN
              <<55296 + (c \div 1024), 56320 + (c % 1024)>>
              \o utf8Text(SubSeq(b, 5, Len(b)))
         ELSE <<65533>> \o utf8Text(Tail(b))

\* AES-256-GCM, symbolically: the ciphertext of bytes under a key and an
\* initialization vector, and the authentication tag of a ciphertext.
cipherText(key, iv, bytes) == [k |-> key, iv |-> iv, bytes |-> bytes]
authTag(key, iv, ct) == [k |-> key, iv |-> iv, ct |-> ct]

\* encrypt(text) with the initialization vector randomBytes gave it: the
\* parts of `${iv}:${encrypted}:${tag}`.
encrypt(text, key, iv) ==
    LET encrypted == cipherText(key, iv, utf8Bytes(text)) IN
    <<iv, encrypted, authTag(key, iv, encrypted)>>

\* decrypt(encrypted, ivHex, tagHex): createDecipheriv throws on an empty
\* initialization vector; final() throws unless the tag set is the tag of
\* this ciphertext under this key and vector.
decrypt(encrypted, ivHex, tagHex, key) ==
    IF /\ ivHex # EmptyIv
       /\ tagHex # None
       /\ tagHex[1] = authTag(key, ivHex, encrypted)
       /\ encrypted.k = key /\ encrypted.iv = ivHex
    THEN [ok |-> TRUE, text |-> utf8Text(encrypted.bytes)]
    ELSE [ok |-> FALSE, text |-> <<>>]

\* The secret fields in the order save and get go through them.
SecretFields == <<"password", "privateKey", "passphrase">>
Stored(f) ==
    CASE f = "password" -> "encryptedPassword"
      [] f = "privateKey" -> "encryptedPrivateKey"
      [] f = "passphrase" -> "encryptedPassphrase"

\* The number of initialization vectors save draws for the first n fields.
RECURSIVE drawn(_, _)
drawn(config, n) ==
    IF n = 0 THEN 0
    ELSE drawn(config, n - 1) + (IF Truthy(config[SecretFields[n]]) THEN 1 ELSE 0)

\* save with all fields of the record encrypted under one vector.
sealField_sharedIv(config, n, key, base) ==
    IF Truthy(config[SecretFields[n]])
    THEN Some(encrypt(config[SecretFields[n]][1], key, base + 1))
    ELSE None

\* `if (config.f) { ... credential.encryptedF = ... }` for the n-th secret
\* field, base being the count of random values drawn before the call.
sealField(config, n, key, base) ==
    IF Truthy(config[SecretFields[n]])
    THEN Some(encrypt(config[SecretFields[n]][1], key, base + drawn(config, n)))
    ELSE None

\* The StoredCredential save builds.
newCredential(id, config, key, base, time) ==
    [id |-> id, host |-> config.host, port |-> config.port,
     username |-> config.username, authType |-> config.authType,
     iv |-> EmptyIv, createdAt |-> time, lastUsedAt |-> time,
     encryptedPassword |-> sealField(config, 1, key, base),
     encryptedPrivateKey |-> sealField(config, 2, key, base),
     encryptedPassphrase |-> sealField(config, 3, key, base)]

\* The decryption of one stored field in get: None for a field that is not
\* stored, else the outcome of decrypt on the parts of the stored string.
openField(credential, f, key) ==
    LET blob == credential[Stored(f)] IN
    IF blob = None THEN [ok |-> TRUE, value |-> None]
    ELSE LET parts == blob[1]
             d == IF Len(parts) = 3
                  THEN decrypt(parts[2], parts[1], Some(parts[3]), key)
                  ELSE decrypt(parts[1], credential.iv,
                               IF Len(parts) >= 2 THEN Some(parts[2]) ELSE None, key)
         IN [ok |-> d.ok, value |-> Some(d.text)]

\* get keeping the fields that decrypt when another one fails.
getResult_partial(credential, key) ==
    LET o == [f \in {"password", "privateKey", "passphrase"} |->
                 openField(credential, f, key)] IN
    Some([host |-> credential.host, port |-> credential.port,
          username |-> credential.username, authType |-> credential.authType,
          password |-> IF o["password"].ok THEN o["password"].value ELSE None,
          privateKey |-> IF o["privateKey"].ok THEN o["privateKey"].value ELSE None,
          passphrase |-> IF o["passphrase"].ok THEN o["passphrase"].value ELSE None])

\* What get returns for a stored credential: the result object, or null
\* (None) when a decrypt threw.
getResult(credential, key) ==
    LET o == [f \in {"password", "privateKey", "passphrase"} |->
                 openField(credential, f, key)] IN
    IF \A f \in DOMAIN o : o[f].ok
    THEN Some([host |-> credential.host, port |-> credential.port,
               username |-> credential.username, authType |-> credential.authType,
               password |-> o["password"].value,
               privateKey |-> o["privateKey"].value,
               passphrase |-> o["passphrase"].value])
    ELSE None

\* Plaintexts: "A", "e" with an acute accent, and a surrogate without its pair.
TextA == <<65>>
TextAccent == <<233>>
TextSurrogate == <<55296>>
TextKey == <<75>>
TextPhrase == <<80>>

Config(user, auth, pw, pk, pp) ==
    [host |-> "h1", port |-> 22, username |-> user, authType |-> auth,
     password |-> pw, privateKey |-> pk, passphrase |-> pp]

\* The configurations save is called with: every combination of secret
\* fields present and absent, and a password of each kind of text.
Configs ==
    {Config("u1", "password", pw, None, None) :
        pw \in {None, Some(<<>>), Some(TextA), Some(TextAccent), Some(TextSurrogate)}}
    \cup
    {Config("u2", "key", pw, pk, pp) :
        pw \in {None, Some(TextA)}, pk \in {None, Some(TextKey)},
        pp \in {None, Some(TextPhrase)}}

\* The SavedConnectionInfo the POST /connections route builds.
Connection(id, name, user, stored, time) ==
    [id |-> id, name |-> name, host |-> "h1", port |-> 22, username |-> user,
     authType |-> "password", hasStoredCredentials |-> stored,
     createdAt |-> time, lastUsedAt |-> time]

\* The bodies of PUT /connections/:id: a new name, and a body naming
\* another id.
Updates == {[name |-> "renamed"], [id |-> "c2"]}

\* The updates PUT /connections/:id passes on: the body, with lastUsedAt set.
putUpdates(body, time) ==
    [f \in DOMAIN body \cup {"lastUsedAt"} |->
        IF f = "lastUsedAt" THEN time ELSE body[f]]

\* Object.assign(connection, updates)
assign(connection, updates) ==
    [f \in DOMAIN connection \cup DOMAIN updates |->
        IF f \in DOMAIN updates THEN updates[f] ELSE connection[f]]

\* The outcome of the vault call a step made: what it returned, what it
\* logged with console.error, and the files it tried to write.
Call(op, id, arg, ret, log, writes) ==
    [op |-> op, id |-> id, arg |-> arg, ret |-> ret, log |-> log, writes |-> writes]
FileWrite(file, ok) == [file |-> file, ok |-> ok]

\* writeFileSync: the content replaces the file, or the write throws and
\* the file stays as it was.
written_(file, content, ok) == IF ok THEN Some(content) ELSE file

\* The failed ones among the file operations of a step.
RECURSIVE failed(_)
failed(oks) ==
    IF oks = <<>> THEN 0
    ELSE (IF Head(oks) THEN 0 ELSE 1) + failed(Tail(oks))

\* The synthesized connection without the mark that credentials are stored.
migrated_unmarked(id, credential) ==
    [id |-> id, name |-> credential.username \o "@" \o credential.host,
     host |-> credential.host, port |-> credential.port,
     username |-> credential.username, authType |-> credential.authType,
     hasStoredCredentials |-> FALSE,
     createdAt |-> credential.createdAt, lastUsedAt |-> credential.lastUsedAt]

\* migrateFromCredentials: the connection synthesized from a credential.
migrated(id, credential) ==
    [id |-> id, name |-> credential.username \o "@" \o credential.host,
     host |-> credential.host, port |-> credential.port,
     username |-> credential.username, authType |-> credential.authType,
     hasStoredCredentials |-> TRUE,
     createdAt |-> credential.createdAt, lastUsedAt |-> credential.lastUsedAt]

\* migrateFromCredentials on the maps just loaded.
migrateFromCredentials(creds, conns) ==
    [id \in DOMAIN conns \cup DOMAIN creds |->
        IF id \in DOMAIN conns THEN conns[id] ELSE migrated(id, creds[id])]

\* The optional properties of StoredCredential; SavedConnectionInfo has none.
StoredSecrets == {"encryptedPassword", "encryptedPrivateKey", "encryptedPassphrase"}
NoOptional == {}

\* JSON.stringify(Array.from(map.entries())): the id/record pairs, a record
\* written with the properties that are defined (JSON.stringify leaves out
\* a property whose value is undefined, which only an optional one can be).
stringify(map, optional) ==
    {<<id, [f \in {g \in DOMAIN map[id] : g \in optional => map[id][g] # None} |->
              map[id][f]]>> : id \in DOMAIN map}

\* new Map(JSON.parse(data)): the record of each pair under the pair's id; a
\* property the text does not hold reads as undefined, which the optional
\* properties of the record type show.
parse(data, optional) ==
    [id \in {e[1] : e \in data} |->
        LET record == (CHOOSE e \in data : e[1] = id)[2] IN
        [f \in DOMAIN record \cup optional |->
            IF f \in DOMAIN record THEN record[f] ELSE None]]

\* load: the Map of the entries in the credential file, the empty Map the
\* store is constructed with when there is no file.
load(file) == IF file = None THEN EmptyMap ELSE parse(file[1], StoredSecrets)

\* loadConnections, up to its call of migrateFromCredentials.
loadConnections(file) == IF file = None THEN EmptyMap ELSE parse(file[1], NoOptional)

\* The store after its first construction, in an empty data directory with
\* no operator key: a generated key, saved to the key file.
VaultInit ==
    /\ credentials = EmptyMap
    /\ connections = EmptyMap
    /\ encryptionKey = 1
    /\ keyFile = Some(1)
    /\ credFile = None
    /\ connFile = None
    /\ fresh = 1
    /\ now = 0
    /\ failures = 0
    /\ tampers = 0
    /\ vlast = Call("constructor", "", NoEnvKey, None, <<>>, <<>>)

\* ------------------------------------------------------ client store
\* useConnectionsStore, src/README.md.  A call of loadConnections that is
\* suspended is at `await fetch` ("fetch") or at `await response.json()`
\* ("json").
LoadAt == {"fetch", "json"}

\* The connections of a list response, as the server serializes them.
Listed(id, name) ==
    [id |-> id, name |-> name, createdAt |-> "2026-01-01T00:00:00.000Z",
     lastUsedAt |-> "2026-01-02T00:00:00.000Z"]

\* new Date(text)
Date(text) == <<"Date", text>>

\* What response.json() resolves with: an object with a connections
\* array, an object without connections, an object whose connections is
\* no array, and null.
Body(kind, list) == [kind |-> kind, connections |-> list]
Bodies ==
    {Body("list", <<>>), Body("list", <<Listed("c1", "work")>>),
     Body("list", <<Listed("c1", "work"), Listed("c2", "home")>>),
     Body("noField", <<>>), Body("notArray", <<>>), Body("null", <<>>)}

\* `(data.connections || []).map(...)`: the connections with their dates
\* made Date objects.  Reading .connections of null throws, and so does
\* .map on a value that is no array.
RECURSIVE mapDates(_)
mapDates(list) ==
    IF list = <<>> THEN <<>>
    ELSE <<[Head(list) EXCEPT !.createdAt = Date(@), !.lastUsedAt = Date(@)]>>
            \o mapDates(Tail(list))
mapThrows(body) == body.kind \in {"notArray", "null"}

\* The sequence without its i-th item.
without(seq, i) == SubSeq(seq, 1, i - 1) \o SubSeq(seq, i + 1, Len(seq))

ClientEvent(op, sent, loaded) == [op |-> op, sent |-> sent, loaded |-> loaded]

\* create(...): the store as it is created.
ClientInit ==
    /\ savedConnections = <<>>
    /\ isLoading = FALSE
    /\ isLoaded = FALSE
    /\ loads = <<>>
    /\ requests = 0
    /\ clast = ClientEvent("create", FALSE, FALSE)

\* ------------------------------------------------------------- state
Init ==
    /\ readyState = [w \in Sockets |-> "NEW"]
    /\ wsSessionId = [w \in Sockets |-> ""]
    /\ isAlive = [w \in Sockets |-> FALSE]
    /\ sessionToWs = [s \in SessionIds |-> NoWs]
    /\ shellOutputSetup = {}
    /\ shell = [s \in Sessions |-> NoShell]
    /\ pending = [s \in Sessions |-> <<>>]
    /\ out = <<>>
    /\ written = <<>>
    /\ ptyOps = <<>>
    /\ last = Event("init", NoWs, "", NoMsg)
    /\ closedBefore = {}
    /\ pinged = {}
    /\ missed = [w \in Sockets |-> 0]
    /\ everPonged = {}
    /\ VaultInit
    /\ ClientInit

\* wss.on('connection')
Connect(w) ==
    /\ readyState[w] = "NEW"
    /\ readyState' = [readyState EXCEPT ![w] = "OPEN"]
    /\ isAlive' = [isAlive EXCEPT ![w] = TRUE]
    /\ out' = <<>>
    /\ written' = <<>>
    /\ ptyOps' = <<>>
    /\ last' = Event("connect", w, "", NoMsg)
    /\ UNCHANGED <<sweepVars, vaultVars, clientVars>>
    /\ UNCHANGED <<wsSessionId, sessionToWs, shellOutputSetup, shell, pending, closedBefore>>

\* handleInput, up to its return or its `await createShell`.
HandleInput(w, m) ==
    LET sid == m.sessionId IN
    IF inputInvalid(m) THEN
        /\ out' = sendError(<<>>, w, "Missing sessionId or data", "")
        /\ written' = <<>>
        /\ UNCHANGED <<wsSessionId, sessionToWs, pending>>
    ELSE IF ~hasSession(sid) THEN
        /\ out' = sendError(<<>>, w, "Session not found", sid)
        /\ written' = <<>>
        /\ UNCHANGED <<wsSessionId, sessionToWs, pending>>
    ELSE
        /\ wsSessionId' = [wsSessionId EXCEPT ![w] = sid]
        /\ sessionToWs' = bindSocket(sessionToWs, sid, w)
        /\ IF ~shell[sid].open THEN
               /\ inFlight(pending, Sessions) < MaxPending
               /\ pending' = [pending EXCEPT ![sid] = Append(@, Waiter(w, m))]
               /\ out' = <<>>
               /\ written' = <<>>
           ELSE
               \E accepted \in BOOLEAN :
                  /\ written' = IF sendInput(shell, sid, accepted)
                                THEN <<Write(shell, sid, m.data)>>
                                ELSE <<>>
                  /\ out' = IF sendInput(shell, sid, accepted)
                            THEN <<>>
                            ELSE sendError(<<>>, w, "Failed to send input", sid)
                  /\ UNCHANGED pending

\* handleResize binding the socket before it looks the session up.
HandleResize_bindFirst(w, m) ==
    LET sid == m.sessionId IN
    IF resizeInvalid(m) THEN
        /\ out' = <<>>
        /\ ptyOps' = <<>>
        /\ UNCHANGED <<wsSessionId, sessionToWs, pending>>
    ELSE
        /\ wsSessionId' = [wsSessionId EXCEPT ![w] = sid]
        /\ sessionToWs' = bindSocket(sessionToWs, sid, w)
        /\ out' = <<>>
        /\ IF ~hasSession(sid) THEN
               /\ ptyOps' = <<>>
               /\ UNCHANGED pending
           ELSE IF shell[sid].open THEN
               /\ ptyOps' = resizeTerminal(shell, sid, m.cols, m.rows)
               /\ UNCHANGED pending
           ELSE
               /\ inFlight(pending, Sessions) < MaxPending
               /\ pending' = [pending EXCEPT ![sid] = Append(@, Waiter(w, m))]
               /\ ptyOps' = <<>>

\* handleResize, up to its return or its `await createShell`.
HandleResize(w, m) ==
    LET sid == m.sessionId IN
    IF resizeInvalid(m) THEN
        /\ out' = <<>>
        /\ ptyOps' = <<>>
        /\ UNCHANGED <<wsSessionId, sessionToWs, pending>>
    ELSE IF ~hasSession(sid) THEN
        /\ out' = <<>>
        /\ ptyOps' = <<>>
        /\ UNCHANGED <<wsSessionId, sessionToWs, pending>>
    ELSE
        /\ wsSessionId' = [wsSessionId EXCEPT ![w] = sid]
        /\ sessionToWs' = bindSocket(sessionToWs, sid, w)
        /\ out' = <<>>
        /\ IF shell[sid].open THEN
               /\ ptyOps' = resizeTerminal(shell, sid, m.cols, m.rows)
               /\ UNCHANGED pending
           ELSE
               /\ inFlight(pending, Sessions) < MaxPending
               /\ pending' = [pending EXCEPT ![sid] = Append(@, Waiter(w, m))]
               /\ ptyOps' = <<>>

\* handleMessage answering a ping with a pong that drops the session id.
HandleMessage_pongNoSid(w, m) ==
    CASE m.type = "input" -> HandleInput(w, m) /\ ptyOps' = <<>>
      [] m.type = "resize" -> HandleResize(w, m) /\ written' = <<>>
      [] m.type = "ping" ->
            /\ out' = sendMessage(<<>>, w, "pong", "", "", "")
            /\ written' = <<>>
            /\ ptyOps' = <<>>
            /\ UNCHANGED <<wsSessionId, sessionToWs, pending>>
      [] OTHER ->
            /\ out' = sendError(<<>>, w, "Unknown message type", "")
            /\ written' = <<>>
            /\ ptyOps' = <<>>
            /\ UNCHANGED <<wsSessionId, sessionToWs, pending>>

\* handleMessage: the dispatch on message.type.
HandleMessage(w, m) ==
    CASE m.type = "input" -> HandleInput(w, m) /\ ptyOps' = <<>>
      [] m.type = "resize" -> HandleResize(w, m) /\ written' = <<>>
      [] m.type = "ping" ->
            /\ out' = sendMessage(<<>>, w, "pong", m.sessionId, "", "")
            /\ written' = <<>>
            /\ ptyOps' = <<>>
            /\ UNCHANGED <<wsSessionId, sessionToWs, pending>>
      [] OTHER ->
            /\ out' = sendError(<<>>, w, "Unknown message type", "")
            /\ written' = <<>>
            /\ ptyOps' = <<>>
            /\ UNCHANGED <<wsSessionId, sessionToWs, pending>>

\* ws.on('message'): JSON.parse, handleMessage, and the catch around both.
\* JSON.parse throws on text that is no JSON; reading .type of null throws.
OnMessage(w, m) ==
    /\ readyState[w] = "OPEN"
    /\ IF m.json = "obj" THEN HandleMessage(w, m)
       ELSE /\ out' = sendError(<<>>, w, "Invalid message format", "")
            /\ written' = <<>>
            /\ ptyOps' = <<>>
            /\ UNCHANGED <<wsSessionId, sessionToWs, pending>>
    /\ last' = Event("message", w, m.sessionId, m)
    /\ UNCHANGED <<sweepVars, vaultVars, clientVars>>
    /\ UNCHANGED <<readyState, isAlive, shellOutputSetup, shell, closedBefore>>

\* The creation a session's suspended handlers wait for succeeds: the manager
\* stores the channel and the handlers resume.
CreateShellResolved(s) ==
    /\ pending[s] # <<>>
    /\ \E oks \in [1..Len(pending[s]) -> BOOLEAN] :
         LET opened == [shell EXCEPT ![s] = newShell]
             st == resumeAll([setup |-> shellOutputSetup, shell |-> opened,
                              out |-> <<>>, written |-> <<>>], pending[s], s, oks)
         IN /\ shellOutputSetup' = st.setup
            /\ shell' = st.shell
            /\ out' = st.out
            /\ written' = st.written
    /\ ptyOps' = <<createShellOpens(pending[s], s)>>
    /\ pending' = [pending EXCEPT ![s] = <<>>]
    /\ last' = Event("created", NoWs, s, NoMsg)
    /\ UNCHANGED <<sweepVars, vaultVars, clientVars>>
    /\ UNCHANGED <<readyState, wsSessionId, isAlive, sessionToWs, closedBefore>>

\* The creation fails: every suspended handler runs its catch block.
CreateShellRejected(s) ==
    /\ pending[s] # <<>>
    /\ out' = rejectAll(<<>>, pending[s], s)
    /\ written' = <<>>
    /\ ptyOps' = <<>>
    /\ pending' = [pending EXCEPT ![s] = <<>>]
    /\ last' = Event("createFailed", NoWs, s, NoMsg)
    /\ UNCHANGED <<sweepVars, vaultVars, clientVars>>
    /\ UNCHANGED <<readyState, wsSessionId, isAlive, sessionToWs, shellOutputSetup,
                   shell, closedBefore>>

\* The channel of s emits 'data'.
ChannelData(s, chunk) ==
    /\ shell[s].open
    /\ out' = dataListenerRuns(shell[s].dataListeners, <<>>, s, chunk)
    /\ written' = <<>>
    /\ ptyOps' = <<>>
    /\ last' = Event("data", NoWs, s, NoMsg)
    /\ UNCHANGED <<sweepVars, vaultVars, clientVars>>
    /\ UNCHANGED <<readyState, wsSessionId, isAlive, sessionToWs, shellOutputSetup,
                   shell, pending, closedBefore>>

\* The channel of s emits 'close': the manager releases the handle and the
\* relay's close listeners run.
ChannelCloseEvent(s) ==
    /\ shell[s].open
    /\ LET st == closeListenerRuns(shell[s].closeListeners,
                    [out |-> <<>>, setup |-> shellOutputSetup, map |-> sessionToWs], s)
       IN /\ out' = st.out
          /\ shellOutputSetup' = st.setup
          /\ sessionToWs' = st.map
    /\ shell' = [shell EXCEPT ![s] = NoShell]
    /\ written' = <<>>
    /\ ptyOps' = <<>>
    /\ last' = Event("channelClose", NoWs, s, NoMsg)
    /\ UNCHANGED <<sweepVars, vaultVars, clientVars>>
    /\ UNCHANGED <<readyState, wsSessionId, isAlive, pending>>

ChannelClose(s) == ChannelCloseEvent(s) /\ UNCHANGED closedBefore

\* The same step, with the history of closed channels recorded.
ChannelCloseRecorded(s) == ChannelCloseEvent(s) /\ closedBefore' = closedBefore \cup {s}

\* The closing handshake starts, or the server terminates the socket: the
\* socket is no longer OPEN, its 'close' event has not been emitted yet.
BeginClose(w) ==
    /\ readyState[w] = "OPEN"
    /\ readyState' = [readyState EXCEPT ![w] = "CLOSING"]
    /\ out' = <<>>
    /\ written' = <<>>
    /\ ptyOps' = <<>>
    /\ last' = Event("closing", w, "", NoMsg)
    /\ UNCHANGED <<sweepVars, vaultVars, clientVars>>
    /\ UNCHANGED <<wsSessionId, isAlive, sessionToWs, shellOutputSetup, shell, pending,
                   closedBefore>>

\* The close listener removing the binding of its session id whoever holds it.
OnClose_unchecked(w) ==
    /\ readyState[w] \in {"OPEN", "CLOSING"}
    /\ readyState' = [readyState EXCEPT ![w] = "CLOSED"]
    /\ sessionToWs' =
          IF ~FalsyStr(wsSessionId[w])
          THEN [sessionToWs EXCEPT ![wsSessionId[w]] = NoWs]
          ELSE sessionToWs
    /\ out' = <<>>
    /\ written' = <<>>
    /\ ptyOps' = <<>>
    /\ last' = Event("close", w, "", NoMsg)
    /\ UNCHANGED <<sweepVars, vaultVars, clientVars>>
    /\ UNCHANGED <<wsSessionId, isAlive, shellOutputSetup, shell, pending, closedBefore>>

\* ws.on('close')
OnClose(w) ==
    /\ readyState[w] \in {"OPEN", "CLOSING"}
    /\ readyState' = [readyState EXCEPT ![w] = "CLOSED"]
    /\ sessionToWs' =
          IF ~FalsyStr(wsSessionId[w]) /\ sessionToWs[wsSessionId[w]] = w
          THEN [sessionToWs EXCEPT ![wsSessionId[w]] = NoWs]
          ELSE sessionToWs
    /\ out' = <<>>
    /\ written' = <<>>
    /\ ptyOps' = <<>>
    /\ last' = Event("close", w, "", NoMsg)
    /\ UNCHANGED <<sweepVars, vaultVars, clientVars>>
    /\ UNCHANGED <<wsSessionId, isAlive, shellOutputSetup, shell, pending, closedBefore>>

Next ==
    \/ \E w \in Sockets : Connect(w)
    \/ \E w \in Sockets, m \in Payloads : OnMessage(w, m)
    \/ \E s \in Sessions : CreateShellResolved(s)
    \/ \E s \in Sessions : CreateShellRejected(s)
    \/ \E s \in Sessions, chunk \in Chunks : ChannelData(s, chunk)
    \/ \E s \in Sessions : ChannelClose(s)
    \/ \E w \in Sockets : BeginClose(w)
    \/ \E w \in Sockets : OnClose(w)

Spec == Init /\ [][Next]_vars

\* The relay with the history of closed channels kept in closedBefore.
NextRecorded ==
    \/ \E w \in Sockets : Connect(w)
    \/ \E w \in Sockets, m \in Payloads : OnMessage(w, m)
    \/ \E s \in Sessions : CreateShellResolved(s)
    \/ \E s \in Sessions : CreateShellRejected(s)
    \/ \E s \in Sessions, chunk \in Chunks : ChannelData(s, chunk)
    \/ \E s \in Sessions : ChannelCloseRecorded(s)
    \/ \E w \in Sockets : BeginClose(w)
    \/ \E w \in Sockets : OnClose(w)

SpecRecorded == Init /\ [][NextRecorded]_vars


\* The frames sent while the order of the input is watched: input frames
\* with different bytes and a resize frame, all for one session.
OrderPayloads ==
    {Payload("obj", "input", "s1", d, 0, 0) : d \in {"a", "b"}}
        \cup {Payload("obj", "resize", "s1", "", 100, 30)}

\* The relay with input frames that can be told apart.
NextInput ==
    \/ \E w \in Sockets : Connect(w)
    \/ \E w \in Sockets, m \in OrderPayloads : OnMessage(w, m)
    \/ \E s \in Sessions : CreateShellResolved(s)
    \/ \E s \in Sessions : CreateShellRejected(s)
    \/ \E s \in Sessions, chunk \in Chunks : ChannelData(s, chunk)
    \/ \E s \in Sessions : ChannelClose(s)
    \/ \E w \in Sockets : BeginClose(w)
    \/ \E w \in Sockets : OnClose(w)

SpecInput == Init /\ [][NextInput]_vars

\* ------------------------------------------------------ liveness sweep
\* wss.clients: the sockets that connected and whose 'close' event has not
\* been emitted.
clients == {w \in Sockets : readyState[w] \in {"OPEN", "CLOSING"}}

\* The sweep that pings every socket and terminates none.
sweepTerminates_never(w) == FALSE

\* `if (ws.isAlive === false) return ws.terminate()`
sweepTerminates(w) == isAlive[w] = FALSE

\* The pong listener leaving the flag as it is.
Pong_noReset(w) ==
    /\ readyState[w] = "OPEN"
    /\ missed' = [missed EXCEPT ![w] = 0]
    /\ everPonged' = everPonged \cup {w}
    /\ out' = <<>>
    /\ written' = <<>>
    /\ ptyOps' = <<>>
    /\ last' = Event("pong", w, "", NoMsg)
    /\ UNCHANGED <<vaultVars, clientVars>>
    /\ UNCHANGED <<readyState, wsSessionId, isAlive, sessionToWs, shellOutputSetup,
                   shell, pending, closedBefore, pinged>>

\* ws.on('pong'): the socket answered a protocol ping.
Pong(w) ==
    /\ readyState[w] = "OPEN"
    /\ isAlive' = [isAlive EXCEPT ![w] = TRUE]
    /\ missed' = [missed EXCEPT ![w] = 0]
    /\ everPonged' = everPonged \cup {w}
    /\ out' = <<>>
    /\ written' = <<>>
    /\ ptyOps' = <<>>
    /\ last' = Event("pong", w, "", NoMsg)
    /\ UNCHANGED <<vaultVars, clientVars>>
    /\ UNCHANGED <<readyState, wsSessionId, sessionToWs, shellOutputSetup,
                   shell, pending, closedBefore, pinged>>

\* One tick of the interval timer of startPingInterval: the forEach over
\* wss.clients.  terminate() destroys the connection, the socket's 'close'
\* event follows later; ping() on a socket that is closing sends nothing.
SweepTick ==
    /\ readyState' = [w \in Sockets |->
                        IF w \in clients /\ sweepTerminates(w) /\ readyState[w] = "OPEN"
                        THEN "CLOSING" ELSE readyState[w]]
    /\ isAlive' = [w \in Sockets |->
                     IF w \in clients /\ ~sweepTerminates(w) THEN FALSE ELSE isAlive[w]]
    /\ pinged' = {w \in clients : ~sweepTerminates(w)}
    /\ missed' = [w \in Sockets |->
                    IF readyState[w] = "OPEN" /\ missed[w] < 2
                    THEN missed[w] + 1 ELSE missed[w]]
    /\ out' = <<>>
    /\ written' = <<>>
    /\ ptyOps' = <<>>
    /\ last' = Event("sweep", NoWs, "", NoMsg)
    /\ UNCHANGED <<vaultVars, clientVars>>
    /\ UNCHANGED <<wsSessionId, sessionToWs, shellOutputSetup, shell, pending,
                   closedBefore, everPonged>>

\* The frames sent while the sweep is watched: pings, and an input frame
\* that opens a channel.
SweepPayloads == PingFrames \cup {Payload("obj", "input", "s1", "a", 0, 0)}

\* The relay with its liveness sweep.
NextSweep ==
    \/ \E w \in Sockets : Connect(w)
    \/ \E w \in Sockets, m \in SweepPayloads : OnMessage(w, m)
    \/ \E w \in Sockets : Pong(w)
    \/ SweepTick
    \/ \E s \in Sessions : CreateShellResolved(s)
    \/ \E s \in Sessions : CreateShellRejected(s)
    \/ \E s \in Sessions, chunk \in Chunks : ChannelData(s, chunk)
    \/ \E s \in Sessions : ChannelClose(s)
    \/ \E w \in Sockets : BeginClose(w)
    \/ \E w \in Sockets : OnClose(w)

SpecSweep == Init /\ [][NextSweep]_vars


\* ------------------------------------------------------ vault actions
\* The file operations of a step fail within the bound.
MayFail(oks) ==
    /\ failures + failed(oks) <= MaxFailures
    /\ failures' = failures + failed(oks)

persistLog(ok) == IF ok THEN <<>> ELSE <<"Failed to persist credentials">>
persistConnectionsLog(ok) == IF ok THEN <<>> ELSE <<"Failed to persist connections">>

\* save(id, config)
Save(id, config, ok) ==
    /\ fresh + drawn(config, 3) <= MaxFresh
    /\ MayFail(<<ok>>)
    /\ credentials' = MapSet(credentials, id,
                             newCredential(id, config, encryptionKey, fresh, now))
    /\ fresh' = fresh + drawn(config, 3)
    /\ credFile' = written_(credFile, stringify(credentials', StoredSecrets), ok)
    /\ vlast' = Call("save", id, config, None, persistLog(ok),
                     <<FileWrite("credentials", ok)>>)
    /\ UNCHANGED <<connections, encryptionKey, keyFile, connFile, now, tampers>>
    /\ UNCHANGED <<relayVars, sweepVars, clientVars>>

\* get(id)
Get(id, ok) ==
    /\ IF id \notin DOMAIN credentials THEN
           /\ ok
           /\ vlast' = Call("get", id, None, None, <<>>, <<>>)
           /\ UNCHANGED <<credentials, credFile, failures>>
       ELSE
           /\ MayFail(<<ok>>)
           /\ credentials' = [credentials EXCEPT ![id].lastUsedAt = now]
           /\ credFile' = written_(credFile, stringify(credentials', StoredSecrets), ok)
           /\ LET result == getResult(credentials'[id], encryptionKey) IN
              vlast' = Call("get", id, None, result,
                            persistLog(ok) \o (IF result = None
                                               THEN <<"Failed to decrypt credential">>
                                               ELSE <<>>),
                            <<FileWrite("credentials", ok)>>)
    /\ UNCHANGED <<connections, encryptionKey, keyFile, connFile, fresh, now, tampers>>
    /\ UNCHANGED <<relayVars, sweepVars, clientVars>>

\* delete(id), on the given maps: the credentials and their file afterwards.
delete(creds, file, id, ok) ==
    IF id \in DOMAIN creds
    THEN [credentials |-> MapDelete(creds, id),
          credFile |-> written_(file, stringify(MapDelete(creds, id), StoredSecrets), ok),
          writes |-> <<FileWrite("credentials", ok)>>, log |-> persistLog(ok),
          result |-> TRUE]
    ELSE [credentials |-> creds, credFile |-> file, writes |-> <<>>, log |-> <<>>,
          result |-> FALSE]

\* delete(id) called from the DELETE /:id route.
Delete(id, ok) ==
    /\ LET d == delete(credentials, credFile, id, ok) IN
         /\ IF d.result THEN MayFail(<<ok>>) ELSE (ok /\ UNCHANGED failures)
         /\ credentials' = d.credentials
         /\ credFile' = d.credFile
         /\ vlast' = Call("delete", id, None, d.result, d.log, d.writes)
    /\ UNCHANGED <<connections, encryptionKey, keyFile, connFile, fresh, now, tampers>>
    /\ UNCHANGED <<relayVars, sweepVars, clientVars>>

\* saveConnection keeping the Map as it was when the write fails.
SaveConnection_rollback(connection, ok) ==
    /\ MayFail(<<ok>>)
    /\ connections' = IF ok THEN MapSet(connections, connection.id, connection)
                      ELSE connections
    /\ connFile' = written_(connFile, stringify(connections', NoOptional), ok)
    /\ vlast' = Call("saveConnection", connection.id, connection, None,
                     persistConnectionsLog(ok), <<FileWrite("connections", ok)>>)
    /\ UNCHANGED <<credentials, encryptionKey, keyFile, credFile, fresh, now, tampers>>
    /\ UNCHANGED <<relayVars, sweepVars, clientVars>>

\* saveConnection(connection)
SaveConnection(connection, ok) ==
    /\ MayFail(<<ok>>)
    /\ connections' = MapSet(connections, connection.id, connection)
    /\ connFile' = written_(connFile, stringify(connections', NoOptional), ok)
    /\ vlast' = Call("saveConnection", connection.id, connection, None,
                     persistConnectionsLog(ok), <<FileWrite("connections", ok)>>)
    /\ UNCHANGED <<credentials, encryptionKey, keyFile, credFile, fresh, now, tampers>>
    /\ UNCHANGED <<relayVars, sweepVars, clientVars>>

\* updateConnection changing the record and leaving the file as it is.
UpdateConnection_noPersist(id, updates, ok) ==
    /\ ok
    /\ IF id \notin DOMAIN connections THEN
           /\ vlast' = Call("updateConnection", id, updates, FALSE, <<>>, <<>>)
           /\ UNCHANGED connections
       ELSE
           /\ connections' = [connections EXCEPT ![id] = assign(@, updates)]
           /\ vlast' = Call("updateConnection", id, updates, TRUE, <<>>, <<>>)
    /\ UNCHANGED <<connFile, failures>>
    /\ UNCHANGED <<credentials, encryptionKey, keyFile, credFile, fresh, now, tampers>>
    /\ UNCHANGED <<relayVars, sweepVars, clientVars>>

\* updateConnection(id, updates)
UpdateConnection(id, updates, ok) ==
    /\ IF id \notin DOMAIN connections THEN
           /\ ok
           /\ vlast' = Call("updateConnection", id, updates, FALSE, <<>>, <<>>)
           /\ UNCHANGED <<connections, connFile, failures>>
       ELSE
           /\ MayFail(<<ok>>)
           /\ connections' = [connections EXCEPT ![id] = assign(@, updates)]
           /\ connFile' = written_(connFile, stringify(connections', NoOptional), ok)
           /\ vlast' = Call("updateConnection", id, updates, TRUE,
                            persistConnectionsLog(ok), <<FileWrite("connections", ok)>>)
    /\ UNCHANGED <<credentials, encryptionKey, keyFile, credFile, fresh, now, tampers>>
    /\ UNCHANGED <<relayVars, sweepVars, clientVars>>

\* deleteConnection removing the connection and leaving the credential.
DeleteConnection_noCascade(id, ok1, ok2) ==
    /\ IF id \notin DOMAIN connections THEN
           /\ ok1 /\ ok2
           /\ vlast' = Call("deleteConnection", id, None, FALSE, <<>>, <<>>)
           /\ UNCHANGED <<connections, connFile, failures>>
       ELSE
           /\ ok1
           /\ MayFail(<<ok2>>)
           /\ connections' = MapDelete(connections, id)
           /\ connFile' = written_(connFile, stringify(connections', NoOptional), ok2)
           /\ vlast' = Call("deleteConnection", id, None, TRUE,
                            persistConnectionsLog(ok2), <<FileWrite("connections", ok2)>>)
    /\ UNCHANGED <<credentials, credFile>>
    /\ UNCHANGED <<encryptionKey, keyFile, fresh, now, tampers>>
    /\ UNCHANGED <<relayVars, sweepVars, clientVars>>

\* deleteConnection(id): ok1 is the outcome of the write delete makes, ok2
\* that of persistConnections.
DeleteConnection(id, ok1, ok2) ==
    /\ IF id \notin DOMAIN connections THEN
           /\ ok1 /\ ok2
           /\ vlast' = Call("deleteConnection", id, None, FALSE, <<>>, <<>>)
           /\ UNCHANGED <<credentials, connections, credFile, connFile, failures>>
       ELSE
           LET d == delete(credentials, credFile, id, ok1) IN
           /\ IF d.result THEN MayFail(<<ok1, ok2>>) ELSE (ok1 /\ MayFail(<<ok2>>))
           /\ connections' = MapDelete(connections, id)
           /\ credentials' = d.credentials
           /\ credFile' = d.credFile
           /\ connFile' = written_(connFile, stringify(connections', NoOptional), ok2)
           /\ vlast' = Call("deleteConnection", id, None, TRUE,
                            d.log \o persistConnectionsLog(ok2),
                            d.writes \o <<FileWrite("connections", ok2)>>)
    /\ UNCHANGED <<encryptionKey, keyFile, fresh, now, tampers>>
    /\ UNCHANGED <<relayVars, sweepVars, clientVars>>

\* The ways a stored field is damaged in the file: one part of
\* iv:encrypted:tag changed, or the first part cut off.
Damages == {"iv", "encrypted", "tag", "cut"}
damaged(parts, how) ==
    CASE how = "iv" -> <<0 - parts[1], parts[2], parts[3]>>
      [] how = "encrypted" ->
            <<parts[1], [parts[2] EXCEPT !.bytes = Append(@, 0)], parts[3]>>
      [] how = "tag" -> <<parts[1], parts[2], [parts[3] EXCEPT !.k = 0 - 1 - @]>>
      [] how = "cut" -> <<parts[2], parts[3]>>

\* The credential file is modified from outside while the store is down or
\* running: one stored secret field of one record is damaged.
Tamper(id, f, how) ==
    /\ tampers < MaxTampers
    /\ credFile # None
    /\ \E e \in credFile[1] :
          /\ e[1] = id
          /\ f \in DOMAIN e[2]
          /\ Len(e[2][f][1]) = 3
          /\ credFile' = Some((credFile[1] \ {e}) \cup
                   {<<id, [e[2] EXCEPT ![f] = Some(damaged(@[1], how))]>>})
    /\ tampers' = tampers + 1
    /\ vlast' = Call("tamper", id, <<f, how>>, None, <<>>, <<>>)
    /\ UNCHANGED <<credentials, connections, encryptionKey, keyFile, connFile,
                   fresh, now, failures>>
    /\ UNCHANGED <<relayVars, sweepVars, clientVars>>

\* The constructor generating a key at every start without an operator key.
provisionKey_overwrite(env, io) ==
    IF env # NoEnvKey
    THEN [key |-> env, keyFile |-> keyFile, fresh |-> fresh, failed |-> FALSE]
    ELSE IF io
    THEN [key |-> fresh + 1, keyFile |-> Some(fresh + 1), fresh |-> fresh + 1,
          failed |-> FALSE]
    ELSE [key |-> fresh + 2, keyFile |-> keyFile, fresh |-> fresh + 2, failed |-> TRUE]

\* The key the constructor ends with, the key file and the count of random
\* values afterwards, and whether the catch block ran: env is
\* CREDENTIAL_KEY, io tells whether the file operations on the key file
\* succeed.  A read that throws leads to one random key; a write that
\* throws comes after one was generated and leads to a second.
provisionKey(env, io) ==
    IF env # NoEnvKey
    THEN [key |-> env, keyFile |-> keyFile, fresh |-> fresh, failed |-> FALSE]
    ELSE IF io /\ keyFile # None
    THEN [key |-> keyFile[1], keyFile |-> keyFile, fresh |-> fresh, failed |-> FALSE]
    ELSE IF io
    THEN [key |-> fresh + 1, keyFile |-> Some(fresh + 1), fresh |-> fresh + 1,
          failed |-> FALSE]
    ELSE IF keyFile # None
    THEN [key |-> fresh + 1, keyFile |-> keyFile, fresh |-> fresh + 1, failed |-> TRUE]
    ELSE [key |-> fresh + 2, keyFile |-> keyFile, fresh |-> fresh + 2, failed |-> TRUE]

\* The process restarts: the constructor provisions the key, loads both
\* collections and reconciles the connections with the credentials.  With
\* an operator key the key file is not touched, so nothing can fail there.
Restart(env, io, ok) ==
    LET k == provisionKey(env, io)
        creds == load(credFile)
        conns == loadConnections(connFile)
        synced == migrateFromCredentials(creds, conns)
        didMigrate == DOMAIN creds \ DOMAIN conns # {}
    IN
    /\ env # NoEnvKey => io
    /\ k.fresh <= MaxFresh
    /\ IF didMigrate THEN MayFail(<<io, ok>>) ELSE (ok /\ MayFail(<<io>>))
    /\ encryptionKey' = k.key
    /\ keyFile' = k.keyFile
    /\ fresh' = k.fresh
    /\ credentials' = creds
    /\ connections' = synced
    /\ connFile' = IF didMigrate
                   THEN written_(connFile, stringify(synced, NoOptional), ok)
                   ELSE connFile
    /\ vlast' = Call("constructor", "", env, None,
                     (IF k.failed THEN <<"Failed to load/save encryption key">> ELSE <<>>)
                     \o (IF didMigrate THEN persistConnectionsLog(ok) ELSE <<>>),
                     IF didMigrate THEN <<FileWrite("connections", ok)>> ELSE <<>>)
    /\ UNCHANGED <<credFile, now, tampers>>
    /\ UNCHANGED <<relayVars, sweepVars, clientVars>>

\* The key file is taken away while the store is down: the data directory
\* is new, or CREDENTIAL_KEY_PATH names a place that holds no file.
RemoveKeyFile ==
    /\ keyFile # None
    /\ keyFile' = None
    /\ vlast' = Call("removeKeyFile", "", None, None, <<>>, <<>>)
    /\ UNCHANGED <<credentials, connections, encryptionKey, credFile, connFile,
                   fresh, now, failures, tampers>>
    /\ UNCHANGED <<relayVars, sweepVars, clientVars>>

\* Time passes.
ClockTick ==
    /\ now < MaxClock
    /\ now' = now + 1
    /\ vlast' = Call("tick", "", None, None, <<>>, <<>>)
    /\ UNCHANGED <<credentials, connections, encryptionKey, keyFile, credFile,
                   connFile, fresh, failures, tampers>>
    /\ UNCHANGED <<relayVars, sweepVars, clientVars>>

\* The connections the clients save: hasStoredCredentials left out of the
\* request body, which the route takes as false.
ConnectionInputs == {Connection(id, "work", "u1", FALSE, now) : id \in Ids}

\* The vault's encryption: credentials saved, read and deleted with every
\* kind of configuration.
NextVault ==
    \/ \E id \in Ids, config \in Configs : Save(id, config, TRUE)
    \/ \E id \in Ids : Get(id, TRUE)
    \/ \E id \in Ids : Delete(id, TRUE)

SpecVault == Init /\ [][NextVault]_vars

\* The configurations saved while reads of damaged records are watched: one
\* secret field, and all three.
ReadConfigs ==
    {Config("u1", "password", Some(TextA), None, None),
     Config("u2", "key", Some(TextA), Some(TextKey), Some(TextPhrase))}

\* The vault's reads: a credential saved, its file damaged from outside,
\* restarts with the key of the key file or the operator's key, and reads
\* of its id and of an absent one as time passes.
NextRead ==
    \/ \E config \in ReadConfigs : Save("c1", config, TRUE)
    \/ \E id \in Ids : Get(id, TRUE)
    \/ \E id \in Ids, f \in {"encryptedPassword", "encryptedPrivateKey", "encryptedPassphrase"},
          how \in Damages : Tamper(id, f, how)
    \/ \E env \in {NoEnvKey, EnvKey} : Restart(env, TRUE, TRUE)
    \/ ClockTick

SpecRead == Init /\ [][NextRead]_vars

\* The configuration saved while the collections are watched.
StoreConfigs == {Config("u1", "password", Some(TextA), None, None)}

\* The vault's collections: credentials and connections saved, updated and
\* deleted, with file writes that may fail, and restarts.
NextStore ==
    \/ \E id \in Ids, config \in StoreConfigs, ok \in BOOLEAN : Save(id, config, ok)
    \/ \E id \in Ids, ok \in BOOLEAN : Delete(id, ok)
    \/ \E connection \in ConnectionInputs, ok \in BOOLEAN : SaveConnection(connection, ok)
    \/ \E id \in Ids, body \in Updates, ok \in BOOLEAN :
          UpdateConnection(id, putUpdates(body, now), ok)
    \/ \E id \in Ids, ok1, ok2 \in BOOLEAN : DeleteConnection(id, ok1, ok2)
    \/ \E ok \in BOOLEAN : Restart(NoEnvKey, TRUE, ok)

SpecStore == Init /\ [][NextStore]_vars


\* The vault's persistence: every operation of the store, reads included,
\* as time passes, with file writes that all succeed, and restarts.
NextPersist ==
    \/ \E config \in StoreConfigs : Save("c1", config, TRUE)
    \/ \E id \in Ids : Get(id, TRUE)
    \/ \E id \in Ids : Delete(id, TRUE)
    \/ \E connection \in ConnectionInputs : SaveConnection(connection, TRUE)
    \/ \E id \in Ids, body \in Updates : UpdateConnection(id, putUpdates(body, now), TRUE)
    \/ \E id \in Ids : DeleteConnection(id, TRUE, TRUE)
    \/ Restart(NoEnvKey, TRUE, TRUE)
    \/ ClockTick

SpecPersist == Init /\ [][NextPersist]_vars

\* The vault with failing storage: every operation of the store, reads
\* included, with file writes that may fail, and restarts.
NextFaulty ==
    \/ \E config \in StoreConfigs, ok \in BOOLEAN : Save("c1", config, ok)
    \/ \E id \in Ids, ok \in BOOLEAN : Get(id, ok)
    \/ \E id \in Ids, ok \in BOOLEAN : Delete(id, ok)
    \/ \E connection \in ConnectionInputs, ok \in BOOLEAN : SaveConnection(connection, ok)
    \/ \E id \in Ids, body \in Updates, ok \in BOOLEAN :
          UpdateConnection(id, putUpdates(body, now), ok)
    \/ \E id \in Ids, ok1, ok2 \in BOOLEAN : DeleteConnection(id, ok1, ok2)
    \/ \E ok \in BOOLEAN : Restart(NoEnvKey, TRUE, ok)

SpecFaulty == Init /\ [][NextFaulty]_vars


\* The vault's key: starts with and without an operator key, with key file
\* operations that may fail, the key file taken away between starts, and a
\* credential saved and read under the key of the run.
NextKey ==
    \/ \E env \in {NoEnvKey, EnvKey}, io \in BOOLEAN : Restart(env, io, TRUE)
    \/ RemoveKeyFile
    \/ \E config \in StoreConfigs : Save("c1", config, TRUE)
    \/ \E id \in Ids : Get(id, TRUE)

SpecKey == Init /\ [][NextKey]_vars

\* ---------------------------------------------- client store actions
\* loadConnections called while a load is in flight sending a request too.
LoadConnections_unguarded ==
    /\ IF isLoaded THEN
           /\ clast' = ClientEvent("loadConnections", FALSE, FALSE)
           /\ UNCHANGED <<isLoading, loads, requests>>
       ELSE
           /\ requests < MaxRequests
           /\ isLoading' = TRUE
           /\ loads' = Append(loads, "fetch")
           /\ requests' = requests + 1
           /\ clast' = ClientEvent("loadConnections", TRUE, FALSE)
    /\ UNCHANGED <<savedConnections, isLoaded>>
    /\ UNCHANGED <<relayVars, sweepVars, vaultVars>>

\* loadConnections(), up to its return or its `await fetch(...)`.
LoadConnections ==
    /\ IF isLoaded \/ isLoading THEN
           /\ clast' = ClientEvent("loadConnections", FALSE, FALSE)
           /\ UNCHANGED <<isLoading, loads, requests>>
       ELSE
           /\ requests < MaxRequests
           /\ isLoading' = TRUE
           /\ loads' = Append(loads, "fetch")
           /\ requests' = requests + 1
           /\ clast' = ClientEvent("loadConnections", TRUE, FALSE)
    /\ UNCHANGED <<savedConnections, isLoaded>>
    /\ UNCHANGED <<relayVars, sweepVars, vaultVars>>

\* The fetch of the i-th suspended call settles: it rejects (catch,
\* finally), resolves with a response that is not ok (finally), or
\* resolves with one that is ok (the call goes on to await the body).
FetchSettled(i, outcome) ==
    /\ i \in DOMAIN loads /\ loads[i] = "fetch"
    /\ IF outcome = "ok" THEN
           /\ loads' = [loads EXCEPT ![i] = "json"]
           /\ UNCHANGED isLoading
       ELSE
           /\ loads' = without(loads, i)
           /\ isLoading' = FALSE
    /\ clast' = ClientEvent("fetch:" \o outcome, FALSE, FALSE)
    /\ UNCHANGED <<savedConnections, isLoaded, requests>>
    /\ UNCHANGED <<relayVars, sweepVars, vaultVars>>

\* response.json() of the i-th suspended call resolves with body: the
\* connections are stored and isLoaded is set unless the mapping throws,
\* and the finally block clears isLoading.
JsonResolved(i, body) ==
    /\ i \in DOMAIN loads /\ loads[i] = "json"
    /\ loads' = without(loads, i)
    /\ isLoading' = FALSE
    /\ IF mapThrows(body) THEN
           /\ clast' = ClientEvent("json:" \o body.kind, FALSE, FALSE)
           /\ UNCHANGED <<savedConnections, isLoaded>>
       ELSE
           /\ savedConnections' = mapDates(body.connections)
           /\ isLoaded' = TRUE
           /\ clast' = ClientEvent("json:" \o body.kind, FALSE, TRUE)
    /\ UNCHANGED requests
    /\ UNCHANGED <<relayVars, sweepVars, vaultVars>>

\* response.json() rejects: the text is no JSON.
JsonRejected(i) ==
    /\ i \in DOMAIN loads /\ loads[i] = "json"
    /\ loads' = without(loads, i)
    /\ isLoading' = FALSE
    /\ clast' = ClientEvent("json:rejected", FALSE, FALSE)
    /\ UNCHANGED <<savedConnections, isLoaded, requests>>
    /\ UNCHANGED <<relayVars, sweepVars, vaultVars>>

\* deleteConnection(id), its update of the local state.
DeleteLocal(id) ==
    /\ savedConnections' = SelectSeq(savedConnections, LAMBDA c : c.id # id)
    /\ clast' = ClientEvent("deleteConnection", FALSE, FALSE)
    /\ UNCHANGED <<isLoading, isLoaded, loads, requests>>
    /\ UNCHANGED <<relayVars, sweepVars, vaultVars>>

\* updateConnectionName(id, name), its update of the local state.
RenameLocal(id, name) ==
    /\ savedConnections' =
          [i \in DOMAIN savedConnections |->
              IF savedConnections[i].id = id
              THEN [savedConnections[i] EXCEPT !.name = name]
              ELSE savedConnections[i]]
    /\ clast' = ClientEvent("updateConnectionName", FALSE, FALSE)
    /\ UNCHANGED <<isLoading, isLoaded, loads, requests>>
    /\ UNCHANGED <<relayVars, sweepVars, vaultVars>>

\* The client's connections store.
NextClient ==
    \/ LoadConnections
    \/ \E i \in 1..MaxRequests, outcome \in {"rejected", "notOk", "ok"} :
          FetchSettled(i, outcome)
    \/ \E i \in 1..MaxRequests, body \in Bodies : JsonResolved(i, body)
    \/ \E i \in 1..MaxRequests : JsonRejected(i)
    \/ \E id \in Ids : DeleteLocal(id)
    \/ \E id \in Ids : RenameLocal(id, "renamed")

SpecClient == Init /\ [][NextClient]_vars

\* ------------------------------------------------------------ claims
\* Frames handleInput and handleResize accept: well formed, for a session the
\* registry holds.
Accepted(m) ==
    /\ m.json = "obj"
    /\ m.type \in {"input", "resize"}
    /\ m.sessionId \in Sessions
    /\ m.type = "input" => m.data # ""
    /\ m.type = "resize" => (m.cols # 0 /\ m.rows # 0)

IsOpen(w) == w # NoWs /\ readyState[w] = "OPEN"
Inputs(wts) == SelectSeq(wts, LAMBDA wt : wt.type = "input")

\* C1 (binding law): an accepted input/resize frame of socket w for session s
\* makes w the bound socket of s; the binding of s moves to another socket
\* only by an accepted frame of that socket for s; and every output chunk of
\* s goes to the socket bound to s when the chunk arrives and to no other.
\* So after A's and then B's accepted frame, output is sent to B, never to A.
C1_BindingLaw ==
    [][ /\ (last'.op = "message" /\ Accepted(last'.msg))
              => sessionToWs'[last'.msg.sessionId] = last'.ws
        /\ \A s \in SessionIds :
              sessionToWs'[s] \notin {sessionToWs[s], NoWs}
                 => /\ last'.op = "message" /\ Accepted(last'.msg)
                    /\ last'.msg.sessionId = s /\ last'.ws = sessionToWs'[s]
        /\ last'.op = "data"
              => \A i \in DOMAIN out' :
                    /\ out'[i].type = "output" /\ out'[i].sessionId = last'.sid
                    /\ out'[i].to = sessionToWs[last'.sid]
      ]_vars

\* C1 witness: socket A sent an accepted frame for a session and is still
\* open, B took the binding over, and a chunk of that session went to B alone.
C1_Witness ==
    /\ last.op = "data"
    /\ wsSessionId["A"] = last.sid /\ readyState["A"] = "OPEN"
    /\ wsSessionId["B"] = last.sid
    /\ Len(out) = 1 /\ out[1].to = "B"

\* C2 (idempotent channel creation): when the creation that the suspended
\* input/resize handlers of a session wait for completes, one channel is
\* opened, every suspended input handler sends its bytes to the channel of
\* that session, and a channel carries exactly one data and one close listener
\* however many handlers resumed.
C2_OneChannelWiredOnce ==
    [][ /\ \A s \in Sessions :
              shell'[s].open =>
                 /\ shell'[s].dataListeners = 1 /\ shell'[s].closeListeners = 1
                 /\ s \in shellOutputSetup'
        /\ last'.op = "created" =>
              LET s == last'.sid IN
              /\ shell'[s].open /\ ~shell[s].open
              /\ Len(ptyOps') = 1 /\ ptyOps'[1].op = "open" /\ ptyOps'[1].sid = s
              /\ \A i \in DOMAIN written' : written'[i].sid = s
              /\ Len(written') <= Len(Inputs(pending[s]))
              /\ (\A i \in DOMAIN pending[s] : IsOpen(pending[s][i].ws))
                    => Len(written') + Len(out') = Len(Inputs(pending[s]))
              /\ pending'[s] = <<>>
      ]_vars

\* C2 witness: two handlers were suspended on one creation, both wrote to the
\* channel, and the channel carries one listener of each kind.
C2_Witness ==
    /\ last.op = "created"
    /\ Len(written) = 2
    /\ shell[last.sid].dataListeners = 1 /\ shell[last.sid].closeListeners = 1

\* C3 (wiring after a close): the wiring marker of a session is set exactly
\* while the session has an open channel carrying the relay's listeners, so a
\* channel created after an earlier one closed is wired again; a chunk of an
\* open channel reaches the open socket bound to the session; and after a
\* close event the session has no channel whose wiring the event removed.
C3_Rewired ==
    /\ \A s \in shellOutputSetup : s \in Sessions /\ shell[s].open
    /\ \A s \in Sessions :
          shell[s].open =>
             /\ s \in shellOutputSetup
             /\ shell[s].dataListeners >= 1 /\ shell[s].closeListeners >= 1
    /\ (last.op = "data" /\ IsOpen(sessionToWs[last.sid]))
          => /\ out # <<>>
             /\ out[1].type = "output" /\ out[1].to = sessionToWs[last.sid]
    /\ last.op = "channelClose" => ~shell[last.sid].open

\* C3 witness: a channel of the session closed earlier, and a chunk of its
\* present channel was sent to the bound socket.
C3_Witness ==
    /\ last.op = "data"
    /\ last.sid \in closedBefore
    /\ Len(out) = 1 /\ out[1].type = "output"

\* C4 (no buffering): a chunk is sent, once, to the open socket bound to its
\* session at the moment it arrives, and is dropped when there is none; no
\* other step sends an output frame, so a dropped chunk is never sent later.
C4_NoBuffering ==
    /\ last.op = "data" =>
          IF IsOpen(sessionToWs[last.sid])
          THEN /\ Len(out) = 1
               /\ out[1].type = "output" /\ out[1].sessionId = last.sid
               /\ out[1].to = sessionToWs[last.sid]
          ELSE out = <<>>
    /\ last.op # "data" => \A i \in DOMAIN out : out[i].type # "output"

\* C4 witness: a chunk arrived while an open socket existed but none was
\* bound to the session, and nothing was sent.
C4_Witness ==
    /\ last.op = "data"
    /\ sessionToWs[last.sid] = NoWs
    /\ \E w \in Sockets : readyState[w] = "OPEN"
    /\ out = <<>>

\* C5 (channel close): the close event sends exactly one disconnect frame to
\* the socket bound to the session if that socket is open and nothing
\* otherwise, leaves the session without binding, marker and channel, and
\* output is sent only for a channel that is open, hence none after it.
C5_CloseCleansUp ==
    [][ /\ last'.op = "channelClose" =>
              LET s == last'.sid
                  ws == sessionToWs[s]
              IN /\ out' = IF IsOpen(ws) THEN <<Frame(ws, "disconnect", s, "", "")>>
                                         ELSE <<>>
                 /\ sessionToWs'[s] = NoWs
                 /\ s \notin shellOutputSetup'
                 /\ ~shell'[s].open
        /\ last'.op = "data" => shell[last'.sid].open
      ]_vars

\* C5 witness: a channel closed and its bound socket got the disconnect frame.
C5_Witness ==
    /\ last.op = "channelClose"
    /\ Len(out) = 1 /\ out[1].type = "disconnect" /\ out[1].sessionId = last.sid
    /\ sessionToWs[last.sid] = NoWs

\* The error frames handleInput's catch block sends for suspended handlers.
RECURSIVE CreateErrors(_, _)
CreateErrors(wts, s) ==
    IF wts = <<>> THEN <<>>
    ELSE (IF Head(wts).type = "input" /\ IsOpen(Head(wts).ws)
          THEN <<Frame(Head(wts).ws, "error", s, "", "Failed to create shell")>>
          ELSE <<>>) \o CreateErrors(Tail(wts), s)

\* The step handled an accepted frame of the given type.
AcceptedStep(type) ==
    /\ last'.op = "message" /\ Accepted(last'.msg) /\ last'.msg.type = type

\* Order of an input on a session without channel: the frame binds the socket
\* and suspends on the creation, delivering nothing; bytes are written only to
\* an open channel that carries the data listener and whose marker is set.
C6_Order ==
    /\ (AcceptedStep("input") /\ ~shell[last'.msg.sessionId].open) =>
          LET s == last'.msg.sessionId IN
          /\ sessionToWs'[s] = last'.ws
          /\ written' = <<>> /\ ptyOps' = <<>>
          /\ pending'[s] = Append(pending[s], Waiter(last'.ws, last'.msg))
    /\ \A i \in DOMAIN written' :
          /\ written'[i].wired
          /\ shell'[written'[i].sid].open
          /\ written'[i].sid \in shellOutputSetup'
    /\ last'.op = "created" =>
          /\ Len(ptyOps') = 1 /\ ptyOps'[1].op = "open"
          /\ written' = <<>> \/ Inputs(pending[last'.sid]) # <<>>

\* C6 as amended: the order above, and the channel has the default dimensions
\* when the creation was started by an input frame (when an earlier resize
\* frame started it, the input handler joins that creation).
C6_InputOrder ==
    [][ /\ C6_Order
        /\ (last'.op = "created" /\ Head(pending[last'.sid]).type = "input") =>
              /\ ptyOps'[1].cols = DefaultDims.cols
              /\ ptyOps'[1].rows = DefaultDims.rows
      ]_vars

\* C6 as stated: the order above, and the channel an input frame waited for
\* has the default dimensions.
C6_Original ==
    [][ /\ C6_Order
        /\ (last'.op = "created" /\ Inputs(pending[last'.sid]) # <<>>) =>
              /\ ptyOps'[1].cols = DefaultDims.cols
              /\ ptyOps'[1].rows = DefaultDims.rows
      ]_vars

\* C6 witness: an input frame found no channel, the channel was created with
\* the default dimensions and wired, and then the bytes were written.
C6_Witness ==
    /\ last.op = "created"
    /\ Len(written) = 1 /\ written[1].wired /\ written[1].sid = last.sid
    /\ ptyOps = <<PtyOp("open", last.sid, DefaultDims.cols, DefaultDims.rows)>>
    /\ last.sid \in shellOutputSetup

\* A creation failure: every suspended input handler sends an error frame
\* with the session id to its socket if that is open, no socket is closed,
\* the session is left without channel, marker and suspended handler; and an
\* accepted frame for a session without channel suspends on a creation.
C7_CreationFailure ==
    /\ last'.op = "createFailed" =>
          LET s == last'.sid IN
          /\ out' = CreateErrors(pending[s], s)
          /\ readyState' = readyState
          /\ s \notin shellOutputSetup' /\ ~shell'[s].open /\ pending'[s] = <<>>
    /\ (last'.op = "message" /\ Accepted(last'.msg) /\ ~shell[last'.msg.sessionId].open) =>
          pending'[last'.msg.sessionId]
             = Append(pending[last'.msg.sessionId], Waiter(last'.ws, last'.msg))

\* The step handled an input frame whose write the channel rejected.
WriteFailed ==
    /\ AcceptedStep("input")
    /\ shell[last'.msg.sessionId].open
    /\ written' = <<>>

\* A write failure is answered with an error frame carrying the session id
\* and closes no socket.
C7_WriteFailure ==
    WriteFailed =>
       /\ out' = <<Frame(last'.ws, "error", last'.msg.sessionId, "", "Failed to send input")>>
       /\ readyState' = readyState

\* C7 as amended: creation failures as above; a write failure is answered
\* with an error frame and leaves the channel, its marker and the socket as
\* they are.
C7_SoftFailure ==
    [][ /\ C7_CreationFailure
        /\ C7_WriteFailure
        /\ WriteFailed => (shell' = shell /\ shellOutputSetup' = shellOutputSetup)
      ]_vars

\* C7 as stated: after a creation failure and after a write failure alike
\* the session has no wiring marker and no channel, so that the next frame
\* attempts a creation.
C7_Original ==
    [][ /\ C7_CreationFailure
        /\ C7_WriteFailure
        /\ WriteFailed =>
              /\ last'.msg.sessionId \notin shellOutputSetup'
              /\ ~shell'[last'.msg.sessionId].open
      ]_vars

\* C7 witness: a creation failed and the open socket of the suspended input
\* handler got the error frame with the session id.
C7_Witness ==
    /\ last.op = "createFailed"
    /\ Len(out) = 1 /\ out[1].error = "Failed to create shell"
    /\ out[1].sessionId = last.sid
    /\ readyState[out[1].to] = "OPEN"
    /\ ~shell[last.sid].open /\ last.sid \notin shellOutputSetup

\* The resize waiters among the suspended handlers.
Resizes(wts) == SelectSeq(wts, LAMBDA wt : wt.type = "resize")

\* C8 as stated: a resize frame on an existing session resizes the channel
\* if there is one and creates none; without a channel it suspends on a
\* creation, and the channel then opened has the frame's cols and rows and is
\* wired; a failed creation sends the resize handler's client no frame, closes
\* no socket and leaves the bindings as they are.
C8_Claim ==
    [][ /\ (AcceptedStep("resize") /\ shell[last'.msg.sessionId].open) =>
              /\ ptyOps' = <<PtyOp("resize", last'.msg.sessionId,
                                   last'.msg.cols, last'.msg.rows)>>
              /\ shell' = shell /\ pending' = pending
              /\ sessionToWs'[last'.msg.sessionId] = last'.ws
        /\ (AcceptedStep("resize") /\ ~shell[last'.msg.sessionId].open) =>
              /\ sessionToWs'[last'.msg.sessionId] = last'.ws
              /\ pending'[last'.msg.sessionId]
                    = Append(pending[last'.msg.sessionId], Waiter(last'.ws, last'.msg))
        /\ last'.op = "created" =>
              \A i \in DOMAIN Resizes(pending[last'.sid]) :
                 /\ ptyOps'[1] = PtyOp("open", last'.sid,
                                       Resizes(pending[last'.sid])[i].cols,
                                       Resizes(pending[last'.sid])[i].rows)
                 /\ last'.sid \in shellOutputSetup'
                 /\ shell'[last'.sid].dataListeners = 1
        /\ last'.op = "createFailed" =>
              /\ out' = CreateErrors(pending[last'.sid], last'.sid)
              /\ readyState' = readyState
              /\ sessionToWs' = sessionToWs
      ]_vars

\* The frame is none the dispatcher handles: its payload does not parse to an
\* object, its type is not known, or it is an input frame without session id
\* or data.
Rejected(m) ==
    \/ m.json # "obj"
    \/ m.type \notin {"input", "resize", "ping"}
    \/ m.type = "input" /\ (m.sessionId = "" \/ m.data = "")

\* The frame is a resize frame without session id, cols or rows.
ResizeIncomplete(m) ==
    /\ m.json = "obj" /\ m.type = "resize"
    /\ (m.sessionId = "" \/ m.cols = 0 \/ m.rows = 0)

\* The step sent exactly one error frame, to the sending socket, and changed
\* nothing else.
ErrorReplyOnly ==
    /\ Len(out') = 1 /\ out'[1].type = "error" /\ out'[1].to = last'.ws
    /\ readyState' = readyState
    /\ UNCHANGED <<wsSessionId, sessionToWs, shellOutputSetup, shell, pending>>
    /\ written' = <<>> /\ ptyOps' = <<>>

\* The step sent nothing and changed nothing.
Ignored ==
    /\ out' = <<>>
    /\ readyState' = readyState
    /\ UNCHANGED <<wsSessionId, sessionToWs, shellOutputSetup, shell, pending>>
    /\ written' = <<>> /\ ptyOps' = <<>>

\* C9 as amended: an unparsable payload, an unrecognized type and an input
\* frame missing session id or data are answered with one error frame; a
\* resize frame missing session id, cols or rows is ignored without a reply;
\* the socket remains open in both cases.
C9_Malformed ==
    [][ last'.op = "message" =>
          /\ Rejected(last'.msg) => ErrorReplyOnly
          /\ ResizeIncomplete(last'.msg) => Ignored
      ]_vars

\* C9 as stated: the malformed resize frame is answered with an error frame
\* as the other malformed frames are.
C9_Original ==
    [][ last'.op = "message" =>
          /\ Rejected(last'.msg) => ErrorReplyOnly
          /\ ResizeIncomplete(last'.msg) => ErrorReplyOnly
      ]_vars

\* C9 witness: an input frame without data was answered with the error frame
\* and the socket is open.
C9_Witness ==
    /\ last.op = "message"
    /\ last.msg.type = "input" /\ last.msg.sessionId # "" /\ last.msg.data = ""
    /\ out = <<Frame(last.ws, "error", "", "", "Missing sessionId or data")>>
    /\ readyState[last.ws] = "OPEN"

\* The frame is a complete input or resize frame for an id that is not in the
\* registry.
ForAbsent(m, type) ==
    /\ m.json = "obj" /\ m.type = type
    /\ IF type = "input" THEN ~inputInvalid(m) ELSE ~resizeInvalid(m)
    /\ ~hasSession(m.sessionId)

\* C10 as amended: an input frame for an absent session id is answered with
\* one error frame carrying that id, a resize frame for one with nothing;
\* neither changes a binding, creates a channel or sends anything else.
C10_AbsentSession ==
    [][ last'.op = "message" =>
          /\ ForAbsent(last'.msg, "input") =>
                /\ ErrorReplyOnly
                /\ out'[1].sessionId = last'.msg.sessionId
                /\ out'[1].error = "Session not found"
          /\ ForAbsent(last'.msg, "resize") => Ignored
      ]_vars

\* C10 as stated: the resize frame for an absent session id is answered with
\* an error frame as the input frame is.
C10_Original ==
    [][ last'.op = "message" =>
          /\ ForAbsent(last'.msg, "input") =>
                /\ ErrorReplyOnly
                /\ out'[1].sessionId = last'.msg.sessionId
          /\ ForAbsent(last'.msg, "resize") =>
                /\ ErrorReplyOnly
                /\ out'[1].sessionId = last'.msg.sessionId
      ]_vars

\* C10 witness: a socket bound to a session sent an input frame for an absent
\* id, got the error frame with that id, and its binding is as it was.
C10_Witness ==
    /\ last.op = "message"
    /\ last.msg.type = "input" /\ last.msg.sessionId = AbsentId
    /\ out = <<Frame(last.ws, "error", AbsentId, "", "Session not found")>>
    /\ \E s \in Sessions : sessionToWs[s] = last.ws
    /\ sessionToWs[AbsentId] = NoWs
    /\ readyState[last.ws] = "OPEN"

\* C11: a socket of which no pong was ever received is terminated by the
\* second sweep it goes through after connecting: the first sweep pings it
\* and clears its flag, the second terminates it.
C11_TerminatedBySecondSweep ==
    /\ \A w \in Sockets :
          (w \notin everPonged /\ missed[w] = 2) => readyState[w] \in {"CLOSING", "CLOSED"}
    /\ \A w \in Sockets :
          (w \notin everPonged /\ missed[w] = 1 /\ readyState[w] = "OPEN") =>
             isAlive[w] = FALSE

\* C11 witness: the second sweep has just terminated a socket that never
\* answered a ping.
C11_Witness ==
    /\ last.op = "sweep"
    /\ \E w \in Sockets :
          /\ w \notin everPonged /\ missed[w] = 2
          /\ readyState[w] = "CLOSING" /\ w \notin pinged

\* C12: a sweep does not terminate an open socket whose pong arrived since
\* the sweep before (or that connected since); and one sweep pings or
\* terminates every open socket, each according to its own flag alone.
C12_SweepPerSocket ==
    [][ last'.op = "sweep" =>
          \A w \in Sockets : readyState[w] = "OPEN" =>
             /\ missed[w] = 0 =>
                   (readyState'[w] = "OPEN" /\ w \in pinged' /\ isAlive'[w] = FALSE)
             /\ \/ readyState'[w] = "OPEN" /\ w \in pinged'
                \/ readyState'[w] = "CLOSING" /\ w \notin pinged'
             /\ (readyState'[w] = "CLOSING") <=> (isAlive[w] = FALSE)
      ]_vars

\* C12 witness: one sweep terminated a silent socket and pinged, and left
\* open, a socket that had answered the ping before.
C12_Witness ==
    /\ last.op = "sweep"
    /\ \E v, w \in Sockets :
          /\ v # w
          /\ readyState[v] = "CLOSING" /\ missed[v] = 2
          /\ readyState[w] = "OPEN" /\ w \in everPonged /\ w \in pinged /\ missed[w] = 1

\* C13 as stated: once the close event of a socket has been handled no
\* session id is bound to that socket.
C13_Claim ==
    \A w \in Sockets : readyState[w] = "CLOSED" =>
       \A s \in SessionIds : sessionToWs[s] # w

\* C14: a ping frame is answered, in the step that handles it, with exactly
\* one pong frame with the frame's session id to the sending socket; the
\* step changes no binding, channel, marker or suspended handler and leaves
\* every liveness flag as it is.
C14_PingPong ==
    [][ (last'.op = "message" /\ last'.msg.json = "obj" /\ last'.msg.type = "ping") =>
          /\ out' = <<Frame(last'.ws, "pong", last'.msg.sessionId, "", "")>>
          /\ written' = <<>> /\ ptyOps' = <<>>
          /\ UNCHANGED <<readyState, wsSessionId, isAlive, sessionToWs,
                         shellOutputSetup, shell, pending>>
      ]_vars

\* C14 witness: a socket whose flag the sweep had cleared sent a ping frame
\* for a session, got the pong with that session id, and its flag is still
\* cleared.
C14_Witness ==
    /\ last.op = "message" /\ last.msg.type = "ping" /\ last.msg.sessionId = "s1"
    /\ out = <<Frame(last.ws, "pong", "s1", "", "")>>
    /\ isAlive[last.ws] = FALSE
    /\ readyState[last.ws] = "OPEN"

\* has(id) and getConnections(), read off the state.
has(id) == id \in DOMAIN credentials
getConnections == {connections[id] : id \in DOMAIN connections}

\* The step is a get(id) that directly follows a save of the same id.
GetAfterSave ==
    /\ vlast.op = "save" /\ vlast'.op = "get" /\ vlast'.id = vlast.id

\* The non-secret fields get returned are those of the configuration saved.
SameAccount(result, config) ==
    /\ result.host = config.host /\ result.port = config.port
    /\ result.username = config.username /\ result.authType = config.authType

\* The text has no surrogate code unit (so none without its pair).
NoSurrogate(text) == \A i \in DOMAIN text : text[i] < 55296 \/ text[i] > 57343

\* A save stores nothing for a secret field that is undefined or empty,
\* whatever the record of that id held before.
OmitsUnsupplied ==
    vlast'.op = "save" =>
       \A i \in DOMAIN SecretFields :
          (vlast'.arg[SecretFields[i]] \in {None, Some(<<>>)}) =>
             credentials'[vlast'.id][Stored(SecretFields[i])] = None

\* C15 as amended: save(id, config) followed by get(id) returns the saved
\* non-secret fields and, for every secret field supplied with a non-empty
\* text without unpaired surrogates, the same text; a field that was not
\* supplied, or supplied as the empty string, is absent from the stored
\* record and from the result.
C15_RoundTrip ==
    [][ /\ OmitsUnsupplied
        /\ GetAfterSave =>
              /\ vlast'.ret # None
              /\ SameAccount(vlast'.ret[1], vlast.arg)
              /\ \A i \in DOMAIN SecretFields :
                    LET f == SecretFields[i] IN
                    /\ (vlast.arg[f] \in {None, Some(<<>>)}) => vlast'.ret[1][f] = None
                    /\ (vlast.arg[f] \notin {None, Some(<<>>)} /\ NoSurrogate(vlast.arg[f][1]))
                          => vlast'.ret[1][f] = vlast.arg[f]
                    /\ (vlast.arg[f] \notin {None, Some(<<>>)}) => vlast'.ret[1][f] # None
      ]_vars

\* C15 as stated: every secret field supplied comes back with the same
\* text, whatever the text, and a field not supplied is absent.
C15_Original ==
    [][ /\ OmitsUnsupplied
        /\ GetAfterSave =>
              /\ vlast'.ret # None
              /\ SameAccount(vlast'.ret[1], vlast.arg)
              /\ \A i \in DOMAIN SecretFields :
                    vlast'.ret[1][SecretFields[i]] = vlast.arg[SecretFields[i]]
      ]_vars

\* C15 witness: a record that held a private key and a passphrase was saved
\* again with a password alone, and the get that followed returned the
\* password and neither of the other two.
C15_Witness ==
    /\ vlast.op = "get" /\ vlast.ret # None
    /\ vlast.ret[1].password = Some(TextAccent)
    /\ vlast.ret[1].privateKey = None /\ vlast.ret[1].passphrase = None
    /\ credentials[vlast.id].encryptedPrivateKey = None
    /\ fresh >= 4

\* The iv:encrypted:tag strings stored in a collection, and in one record.
BlobsOf(credential) ==
    {credential[g][1] : g \in {h \in {"encryptedPassword", "encryptedPrivateKey",
                                        "encryptedPassphrase"} : credential[h] # None}}
StoredBlobs(creds) == UNION {BlobsOf(creds[id]) : id \in DOMAIN creds}

\* The number of secret fields a record stores.
StoredCount(credential) ==
    Cardinality({h \in {"encryptedPassword", "encryptedPrivateKey",
                        "encryptedPassphrase"} : credential[h] # None})

\* C16: every field a save stores has an initialization vector of its own:
\* one no other field of the record has, none of a field stored before in
\* any record, and none drawn before; so the string stored differs from
\* every string stored before, also for the same plaintext.
C16_FreshIv ==
    [][ vlast'.op = "save" =>
          LET new == BlobsOf(credentials'[vlast'.id]) IN
          /\ Cardinality({b[1] : b \in new}) = StoredCount(credentials'[vlast'.id])
          /\ \A b \in new :
                /\ b[1] > fresh
                /\ \A c \in StoredBlobs(credentials) : b[1] # c[1] /\ b # c
          /\ \A b, c \in StoredBlobs(credentials') :
                b[1] = c[1] => b = c
      ]_vars

\* C16 witness: the same password was saved under both ids, and each of
\* the two stored strings has its own initialization vector.
C16_Witness ==
    /\ vlast.op = "save"
    /\ DOMAIN credentials = Ids
    /\ \A id \in Ids : credentials[id].encryptedPassword # None
    /\ \A id \in Ids :
          credentials[id].encryptedPassword[1][2].bytes = utf8Bytes(TextA)
    /\ credentials["c1"].encryptedPassword[1][1] # credentials["c2"].encryptedPassword[1][1]
    /\ credentials["c1"].encryptedPassword # credentials["c2"].encryptedPassword

\* The texts of the secrets saved while reads are watched.
ReadTexts == {TextA, TextKey, TextPhrase}

\* The stored string is what encrypt produces under the key for some text.
Authentic(blob, key) ==
    \E text \in ReadTexts, iv \in 1..MaxFresh : blob = encrypt(text, key, iv)

\* The step is a get of a stored credential of which a field fails to
\* authenticate.
GetOfDamaged ==
    /\ vlast'.op = "get"
    /\ vlast'.id \in DOMAIN credentials
    /\ \E b \in BlobsOf(credentials[vlast'.id]) : ~Authentic(b, encryptionKey)

\* C17: a get of a credential of which a stored field fails to
\* authenticate logs the decryption failure and returns null; and whatever
\* a get returns holds, for every stored field, the text that was encrypted.
C17_FailClosed ==
    [][ /\ GetOfDamaged =>
              /\ vlast'.ret = None
              /\ \E i \in DOMAIN vlast'.log : vlast'.log[i] = "Failed to decrypt credential"
        /\ (vlast'.op = "get" /\ vlast'.ret # None) =>
              \A i \in DOMAIN SecretFields :
                 LET blob == credentials[vlast'.id][Stored(SecretFields[i])]
                     value == vlast'.ret[1][SecretFields[i]]
                 IN IF blob = None THEN value = None
                    ELSE \E text \in ReadTexts, iv \in 1..MaxFresh :
                            /\ blob[1] = encrypt(text, encryptionKey, iv)
                            /\ value = Some(text)
      ]_vars

\* C17 witness: a record with three stored fields, one of them damaged and
\* the other two intact, was read and get returned null.
C17_Witness ==
    /\ vlast.op = "get" /\ vlast.ret = None
    /\ vlast.id \in DOMAIN credentials
    /\ StoredCount(credentials[vlast.id]) = 3
    /\ Cardinality({b \in BlobsOf(credentials[vlast.id]) :
                       Authentic(b, encryptionKey)}) = 2

\* C18 as stated: a get that returns no credential, for a decryption error
\* or an absent id, leaves the credentials in memory and in the file as
\* they were.
C18_Claim ==
    [][ (vlast'.op = "get" /\ vlast'.ret = None) =>
           (credentials' = credentials /\ credFile' = credFile)
      ]_vars

\* The records of every id but one are as they were, in both collections.
OthersUnchanged(id) ==
    \A other \in Ids \ {id} :
       /\ (other \in DOMAIN credentials') <=> (other \in DOMAIN credentials)
       /\ (other \in DOMAIN connections') <=> (other \in DOMAIN connections)
       /\ other \in DOMAIN credentials => credentials'[other] = credentials[other]
       /\ other \in DOMAIN connections => connections'[other] = connections[other]

C20_Reconciled ==
    [][ vlast'.op = "constructor" =>
          LET creds == load(credFile)
              conns == loadConnections(connFile)
              lacking == DOMAIN creds \ DOMAIN conns
          IN
          /\ credentials' = creds
          /\ DOMAIN connections' = DOMAIN conns \cup DOMAIN creds
          /\ \A id \in DOMAIN conns : connections'[id] = conns[id]
          /\ \A id \in lacking :
                /\ connections'[id].id = id
                /\ connections'[id].name = creds[id].username \o "@" \o creds[id].host
                /\ connections'[id].host = creds[id].host
                /\ connections'[id].port = creds[id].port
                /\ connections'[id].username = creds[id].username
                /\ connections'[id].authType = creds[id].authType
                /\ connections'[id].hasStoredCredentials = TRUE
          /\ (lacking # {}) <=> (vlast'.writes # <<>>)
          /\ \A i \in DOMAIN vlast'.writes :
                /\ vlast'.writes[i].file = "connections"
                /\ vlast'.writes[i].ok => connFile' = Some(stringify(connections', NoOptional))
          /\ lacking = {} => connFile' = connFile
      ]_vars

\* C20 witness: the store started with two credentials and one connection
\* in its files; the connection is as saved, the other id has the
\* synthesized one, and the connection file holds both.
C20_Witness ==
    /\ vlast.op = "constructor" /\ vlast.writes = <<FileWrite("connections", TRUE)>>
    /\ DOMAIN credentials = Ids /\ DOMAIN connections = Ids
    /\ \E id \in Ids :
          /\ connections[id].name = "work"
          /\ \A other \in Ids \ {id} :
                /\ connections[other].name = "u1@h1"
                /\ connections[other].hasStoredCredentials
    /\ connFile = Some(stringify(connections, NoOptional))
\* The collections the files hold are the collections in memory.
FilesCurrent ==
    /\ load(credFile) = credentials
    /\ loadConnections(connFile) = connections

\* C21 as amended: while no storage write fails, after every operation the
\* persisted credentials are the credentials in memory and the persisted
\* connections the connections in memory; a restart reloads exactly the
\* credentials, keeps every connection as it was, and adds a connection
\* for each credential that had none, so it reloads exactly the state
\* before it when every credential has a connection.
C21_Persisted ==
    [][ /\ FilesCurrent'
        /\ vlast'.op = "constructor" =>
              /\ credentials' = credentials
              /\ DOMAIN connections' = DOMAIN connections \cup DOMAIN credentials
              /\ \A id \in DOMAIN connections : connections'[id] = connections[id]
              /\ DOMAIN credentials \subseteq DOMAIN connections
                    => connections' = connections
      ]_vars

\* C21 as stated: the files hold the collections in memory, and a restart
\* reloads exactly the state before it.
C21_Original ==
    [][ /\ FilesCurrent'
        /\ vlast'.op = "constructor" =>
              (credentials' = credentials /\ connections' = connections)
      ]_vars

\* C21 witness: a credential was saved and read at a later time, a
\* connection was saved and renamed, no write failed, and the store
\* restarted with the files holding both as they were in memory.
C21_Witness ==
    /\ vlast.op = "constructor"
    /\ failures = 0
    /\ "c1" \in DOMAIN credentials
    /\ credentials["c1"].createdAt = 0 /\ credentials["c1"].lastUsedAt = 1
    /\ \E id \in DOMAIN connections : connections[id].name = "renamed"
    /\ FilesCurrent
\* A write of the step failed; a write of the step to the file succeeded.
WriteFailedIn(call) == \E i \in DOMAIN call.writes : ~call.writes[i].ok
Wrote(call, file) ==
    \E i \in DOMAIN call.writes : call.writes[i].file = file /\ call.writes[i].ok

\* What each mutation returns and leaves in the collections in memory when
\* it is carried out.
Carried(call, creds, conns, time) ==
    CASE call.op = "save" ->
            /\ call.ret = None
            /\ call.id \in DOMAIN creds
            /\ SameAccount(creds[call.id], call.arg)
      [] call.op = "get" ->
            /\ call.ret # None
            /\ call.id \in DOMAIN creds /\ creds[call.id].lastUsedAt = time
      [] call.op = "delete" -> call.ret = TRUE /\ call.id \notin DOMAIN creds
      [] call.op = "saveConnection" ->
            /\ call.ret = None
            /\ call.id \in DOMAIN conns /\ conns[call.id] = call.arg
      [] call.op = "updateConnection" ->
            /\ call.ret = TRUE
            /\ \A f \in DOMAIN call.arg : conns[call.id][f] = call.arg[f]
      [] call.op = "deleteConnection" ->
            /\ call.ret = TRUE
            /\ call.id \notin DOMAIN conns /\ call.id \notin DOMAIN creds
      [] call.op = "constructor" -> DOMAIN creds \subseteq DOMAIN conns

\* C22: a storage write that fails during a vault mutation is logged and
\* nothing more: the call returns what it returns when the write succeeds,
\* the collections in memory hold the mutation, and a get reads the
\* credential in memory whatever the file holds; every write that succeeds
\* leaves the whole collection in memory in its file.
C22_WriteFailure ==
    [][ /\ WriteFailedIn(vlast') => (vlast'.log # <<>> /\ Carried(vlast', credentials', connections', now))
        /\ (vlast'.op = "get" /\ has(vlast'.id)) => vlast'.ret # None
        /\ Wrote(vlast', "credentials") => load(credFile') = credentials'
        /\ Wrote(vlast', "connections") => loadConnections(connFile') = connections'
      ]_vars

\* C22 witness: the write of an updateConnection failed: the call returned
\* true, the connection in memory is renamed, and the file holds it under
\* its old name.
C22_Witness ==
    /\ vlast.op = "updateConnection" /\ vlast.ret = TRUE
    /\ vlast.writes = <<FileWrite("connections", FALSE)>>
    /\ connections[vlast.id].name = "renamed"
    /\ vlast.id \in DOMAIN loadConnections(connFile)
    /\ loadConnections(connFile)[vlast.id].name = "work"
\* The constructor's catch block for the key file ran in this call.
KeyFileFailed(call) ==
    \E i \in DOMAIN call.log : call.log[i] = "Failed to load/save encryption key"

\* The key of the run is in no file: generated in this start, not written.
InMemoryOnly(key, file, drawnBefore) ==
    /\ key > drawnBefore
    /\ file = None \/ file[1] # key

\* C23: the constructor takes the operator's key when one is set; else the
\* key of the key file when there is one; else a key generated in this
\* start, which it writes to the key file; and a key that is in memory only
\* exactly when a read or write of the key file failed.  A key file that
\* exists is left as it is, and a start that follows a start with the same
\* environment and no failure has the same key.
C23_KeyPriority ==
    [][ vlast'.op = "constructor" =>
          LET env == vlast'.arg IN
          /\ env # NoEnvKey => (encryptionKey' = env /\ ~KeyFileFailed(vlast'))
          /\ (env = NoEnvKey /\ ~KeyFileFailed(vlast')) =>
                IF keyFile # None
                THEN encryptionKey' = keyFile[1]
                ELSE /\ encryptionKey' > fresh
                     /\ keyFile' = Some(encryptionKey')
          /\ KeyFileFailed(vlast') <=> InMemoryOnly(encryptionKey', keyFile', fresh)
          /\ keyFile # None => keyFile' = keyFile
          /\ (vlast.op = "constructor" /\ vlast.arg = env
                /\ ~KeyFileFailed(vlast) /\ ~KeyFileFailed(vlast'))
                => encryptionKey' = encryptionKey
      ]_vars

\* C23 witness: a start without operator key took from the key file a key
\* that an earlier start had generated and written there after the first
\* key file was taken away.
C23_Witness ==
    /\ vlast.op = "constructor" /\ vlast.arg = NoEnvKey /\ ~KeyFileFailed(vlast)
    /\ keyFile = Some(encryptionKey)
    /\ encryptionKey # 1
    /\ encryptionKey < fresh
\* C24: the close of a socket changes no binding that another socket
\* holds: when A was bound to s, B took the binding over and A closes, B is
\* still the bound socket of s, and a chunk of s that arrives while B is
\* open is sent to B.
C24_CloseKeepsOthers ==
    [][ /\ last'.op = "close" =>
              \A s \in SessionIds :
                 sessionToWs[s] # last'.ws => sessionToWs'[s] = sessionToWs[s]
        /\ (last'.op = "data" /\ IsOpen(sessionToWs[last'.sid])) =>
              /\ Len(out') = 1
              /\ out'[1].type = "output" /\ out'[1].to = sessionToWs[last'.sid]
      ]_vars

\* C24 witness: A has just closed; the session of its last frame has an
\* open channel and is bound to B, which took the binding over before the
\* close and is open.
C24_Witness ==
    /\ last.op = "close" /\ last.ws = "A"
    /\ wsSessionId["A"] \in Sessions
    /\ shell[wsSessionId["A"]].open
    /\ sessionToWs[wsSessionId["A"]] = "B"
    /\ readyState["B"] = "OPEN"
\* The session ids a socket is the bound socket of.
BoundTo(w) == {s \in SessionIds : sessionToWs[s] = w}

\* C25 as stated: a socket is the bound socket of at most one session id,
\* and an output or disconnect frame is sent only to a socket whose latest
\* accepted frame was for the session of the frame.
C25_Claim ==
    /\ \A w \in Sockets : Cardinality(BoundTo(w)) <= 1
    /\ \A i \in DOMAIN out :
          out[i].type \in {"output", "disconnect"}
             => wsSessionId[out[i].to] = out[i].sessionId
\* The bytes of the writes of a step, and of the suspended input handlers.
RECURSIVE DataOf(_)
DataOf(items) ==
    IF items = <<>> THEN <<>> ELSE <<Head(items).data>> \o DataOf(Tail(items))

\* a holds some of the items of b, in the order of b, each at most once.
RECURSIVE IsSubseq(_, _)
IsSubseq(a, b) ==
    IF a = <<>> THEN TRUE
    ELSE IF b = <<>> THEN FALSE
    ELSE IF Head(a) = Head(b) THEN IsSubseq(Tail(a), Tail(b))
    ELSE IsSubseq(a, Tail(b))

SendFailures(o) == SelectSeq(o, LAMBDA f : f.error = "Failed to send input")

\* C26: the bytes of the valid input frames of a session reach its channel
\* once each and in the order of arrival.  A frame that finds the channel
\* open is written in its own step, and then no earlier frame is still
\* waiting; a frame that finds no channel waits behind those that wait
\* already; when the creation completes the waiting frames are written in
\* the order they arrived, all of them when every write succeeds; and no
\* other step writes or changes who waits.
C26_InputInOrder ==
    [][ /\ \A s \in Sessions : shell'[s].open => pending'[s] = <<>>
        /\ AcceptedStep("input") =>
              LET s == last'.msg.sessionId IN
              IF shell[s].open
              THEN /\ pending[s] = <<>>
                   /\ IF SendFailures(out') = <<>>
                      THEN DataOf(written') = <<last'.msg.data>>
                      ELSE written' = <<>>
              ELSE /\ written' = <<>>
                   /\ pending'[s] = Append(pending[s], Waiter(last'.ws, last'.msg))
        /\ last'.op = "created" =>
              LET waiting == Inputs(pending[last'.sid]) IN
              /\ \A i \in DOMAIN written' : written'[i].sid = last'.sid
              /\ IsSubseq(DataOf(written'), DataOf(waiting))
              /\ ((\A i \in DOMAIN waiting : IsOpen(waiting[i].ws))
                    /\ SendFailures(out') = <<>>)
                    => DataOf(written') = DataOf(waiting)
        /\ last'.op \notin {"message", "created"} => written' = <<>>
        /\ last'.op \notin {"message", "created", "createFailed"} => pending' = pending
      ]_vars

\* C26 witness: one socket sent "a" and then "b" for a session whose
\* channel was still being opened, and both were written, "a" first.
C26_Witness ==
    /\ last.op = "created"
    /\ DataOf(written) = <<"a", "b">>
    /\ wsSessionId["A"] = last.sid /\ wsSessionId["B"] = ""
\* C27 as stated: every connection is stored under its own id, and
\* updateConnection on an id without connection returns false and changes
\* nothing.
C27_Claim ==
    [][ /\ \A k \in DOMAIN connections' : connections'[k].id = k
        /\ (vlast'.op = "updateConnection" /\ vlast'.id \notin DOMAIN connections) =>
              /\ vlast'.ret = FALSE
              /\ connections' = connections /\ connFile' = connFile
      ]_vars
\* C28: at most one call of loadConnections is in flight, and isLoading is
\* true exactly while one is; a call made while a load is in flight or
\* after isLoaded is true sends no request and changes nothing, any other
\* call sends one; isLoaded becomes true only when a response that is ok
\* has been read and stored, and never false again; and a load that fails
\* in any way leaves isLoaded false and isLoading false, so that the next
\* call sends a request again.
C28_SingleLoad ==
    [][ /\ Len(loads') <= 1
        /\ isLoading' <=> (loads' # <<>>)
        /\ clast'.op = "loadConnections" =>
              IF isLoaded \/ isLoading
              THEN /\ ~clast'.sent
                   /\ UNCHANGED <<savedConnections, isLoading, isLoaded, loads, requests>>
              ELSE /\ clast'.sent
                   /\ requests' = requests + 1 /\ loads' = <<"fetch">>
                   /\ UNCHANGED <<savedConnections, isLoaded>>
        /\ requests' # requests => (clast'.op = "loadConnections" /\ ~isLoaded)
        /\ isLoaded => isLoaded'
        /\ (isLoaded' /\ ~isLoaded) =>
              /\ clast'.op \in {"json:list", "json:noField"}
              /\ loads = <<"json">> /\ loads' = <<>>
        /\ clast'.op \in {"fetch:rejected", "fetch:notOk", "json:rejected",
                          "json:notArray", "json:null"} =>
              /\ ~isLoading' /\ loads' = <<>>
              /\ isLoaded' = isLoaded
              /\ savedConnections' = savedConnections
      ]_vars

\* C28 witness: a load failed, a second call sent a second request, and
\* its response has been stored: two connections, loaded, nothing in
\* flight.
C28_Witness ==
    /\ requests = 2
    /\ clast.loaded
    /\ isLoaded /\ ~isLoading /\ loads = <<>>
    /\ Len(savedConnections) = 2
====
